---- MODULE Spec2Model ----
(***************************************************************************)
(* State-machine model of cs-match-summary-bot: the entity store           *)
(* (database.go), the Steam poller and its in-memory deduplicator          *)
(* (steam_poller.go, kept here as src/unnamed/part_008), and the webhook   *)
(* ingestor with its fan-out notifier (webhook_handlers.go).               *)
(***************************************************************************)
EXTENDS Integers, Sequences, FiniteSets, TLC

(***************************************************************************)
(* Bounds of the exploration.                                              *)
(***************************************************************************)
MaxCycles == 2        \* poll cycles (ticker ticks) in one run
MaxStops == 1         \* calls of Stop
HighWater == 2        \* size above which the code set is cleared (1000)
MaxStoreFaults == 1   \* storage failures injected in one run
MaxDeliveries == 2    \* webhook deliveries in one run
MaxCommands == 3      \* store calls, commands and queries in one run

(***************************************************************************)
(* Universes.  S9 is a participant identity that has no account.           *)
(***************************************************************************)
Loops == {1, 2}                     \* goroutines that call Start
ShareCodes == {"C1", "C2", "C3"}
GuildIDs == {"X", "Y"}
NoCode == ""
NA == "n/a"

Procs == {"p1", "p2"}               \* goroutines of the chat session
Idle == [op |-> "idle"]

(***************************************************************************)
(* Errors.  Every store function wraps the driver's error with             *)
(* fmt.Errorf("...: %w", err); callers compare the result with             *)
(* sql.ErrNoRows by ==, which is identity of the error value.              *)
(***************************************************************************)
Nil == [msg |-> "nil"]
ErrNoRows == [msg |-> "sql: no rows in result set"]
ErrConn == [msg |-> "driver: bad connection"]
ErrUnique == [msg |-> "pq: duplicate key value violates unique constraint"]
Wrap(prefix, e) == [msg |-> prefix, wraps |-> e]

VARIABLES
    users,           \* table users: rows in created_at order
    guilds,          \* table guilds
    games,           \* table games
    storeFaults,     \* storage failures injected so far
    isRunning,       \* SteamPoller.isRunning
    stopClosed,      \* SteamPoller.stopChan has been closed
    panicked,        \* the process died of a runtime panic
    processedCodes,  \* SteamPoller.processedCodes (the keys mapped to true)
    stops,           \* calls of Stop so far
    pc,              \* position of each goroutine that calls Start
    snap,            \* pollAllUsers: users, the rows getAllUsers returned
    idx,             \* pollAllUsers: position of the range over users
    currentCodes,    \* pollAllUsers: currentCodes, share code -> users
    remaining,       \* pollAllUsers: keys of currentCodes not yet ranged over
    cur,             \* processNewMatch: shareCode
    demoReq,         \* demo service: getDemo requests per share code
    cycles,          \* poll cycles each loop has begun
    cycReq,          \* getDemo requests each loop issued in its current cycle
    cycSkipped,      \* codes the loop's current cycle skipped as already processed
    provider,        \* how the Steam API answers: "any" or "faithful"
    discovered,      \* accounts for which a getDemo request was issued, per code
    stopAt,          \* position of each loop when Stop closed stopChan
    sinceCheck,      \* codes marked since the last CleanupProcessedCodes
    cycPolled,       \* accounts each loop's current cycle polled: ok, failed
    history,         \* which of stopAt, sinceCheck and cycPolled are recorded
    hookLog,         \* webhook deliveries answered so far: hook, share code, status
    parseReq,        \* demo service: parseDemo requests per share code
    fanouts,         \* sendMatchSummaryToGuilds runs: who was sent what
    steamPoller,     \* the global steamPoller the webhook handlers read
    cmds,            \* the handler each goroutine of the chat session runs
    cmdLog           \* handlers that have returned: what they answered

storeVars == <<users, guilds, games, storeFaults>>
pollerVars == <<isRunning, stopClosed, panicked, processedCodes, stops, pc, snap,
                idx, currentCodes, remaining, cur, demoReq, cycles, cycReq,
                cycSkipped, provider>>
hookVars == <<hookLog, parseReq, fanouts, steamPoller>>
ghostVars == <<discovered, stopAt, sinceCheck, cycPolled, history>>
commandVars == <<cmds, cmdLog>>
vars == <<storeVars, pollerVars, ghostVars, hookVars, commandVars>>

(***************************************************************************)
(* Entity store.                                                           *)
(***************************************************************************)
User(steamID, uuid, last) ==
    [steamID |-> steamID, uuid |-> uuid, authCode |-> "auth",
     lastShareCode |-> last, gameIDs |-> <<>>]

Guild(guildID, channelID, userIDs) ==
    [guildID |-> guildID, channelID |-> channelID, userIDs |-> userIDs,
     gameIDs |-> <<>>]

Game(shareCode, demoName, steamIDs) ==
    [uuid |-> <<"game", shareCode>>, shareCode |-> shareCode,
     demoName |-> demoName, steamIDs |-> steamIDs]

\* SELECT ... FROM users ORDER BY created_at
getAllUsers == users

\* an update that inserts a row when the account has none
updateUserLastShareCodeUpsert(tbl, steamID, shareCode) ==
    IF \E i \in DOMAIN tbl : tbl[i].steamID = steamID
    THEN [i \in DOMAIN tbl |->
             IF tbl[i].steamID = steamID
             THEN [tbl[i] EXCEPT !.lastShareCode = shareCode]
             ELSE tbl[i]]
    ELSE Append(tbl, [steamID |-> steamID, uuid |-> "n1", authCode |-> "",
                      lastShareCode |-> shareCode, gameIDs |-> <<>>])

\* UPDATE users SET last_share_code = $2 WHERE steam_id = $1
updateUserLastShareCode(tbl, steamID, shareCode) ==
    [i \in DOMAIN tbl |->
        IF tbl[i].steamID = steamID
        THEN [tbl[i] EXCEPT !.lastShareCode = shareCode]
        ELSE tbl[i]]

LastShareCodeOf(steamID) ==
    LET r == {i \in DOMAIN users : users[i].steamID = steamID}
    IN  IF r = {} THEN NoCode ELSE users[CHOOSE i \in r : TRUE].lastShareCode

NoRow == [uuid |-> "nil"]

\* SELECT ... FROM games WHERE share_code = $1; fault: the query fails
getGameByShareCode(tbl, shareCode, fault) ==
    LET r == {i \in DOMAIN tbl : tbl[i].shareCode = shareCode}
    IN  IF fault
        THEN [game |-> NoRow, err |-> Wrap("failed to get game", ErrConn)]
        ELSE IF r = {}
        THEN [game |-> NoRow, err |-> Wrap("failed to get game", ErrNoRows)]
        ELSE [game |-> tbl[CHOOSE i \in r : TRUE], err |-> Nil]

\* INSERT INTO games (uuid, share_code, demo_name, steam_ids)
createGame(tbl, shareCode, demoName, steamIDs, fault) ==
    IF fault
    THEN [games |-> tbl, err |-> Wrap("failed to create game", ErrConn)]
    ELSE IF \E i \in DOMAIN tbl : tbl[i].shareCode = shareCode
    THEN [games |-> tbl, err |-> Wrap("failed to create game", ErrUnique)]
    ELSE [games |-> Append(tbl, Game(shareCode, demoName, steamIDs)),
          err |-> Nil]

\* an update written as the insert of the new version of the row
updateGameAsInsert(tbl, game, fault) ==
    [games |-> Append(tbl, game), err |-> Nil]

\* an update that stores no participants
updateGameDropsPlayers(tbl, game, fault) ==
    [games |-> [i \in DOMAIN tbl |->
                   IF tbl[i].uuid = game.uuid
                   THEN [tbl[i] EXCEPT !.demoName = game.demoName,
                                       !.steamIDs = <<>>]
                   ELSE tbl[i]],
     err |-> Nil]

\* UPDATE games SET demo_name = $2, steam_ids = $3 WHERE uuid = $1
updateGame(tbl, game, fault) ==
    IF fault
    THEN [games |-> tbl, err |-> Wrap("failed to update game", ErrConn)]
    ELSE [games |-> [i \in DOMAIN tbl |->
                        IF tbl[i].uuid = game.uuid
                        THEN [tbl[i] EXCEPT !.demoName = game.demoName,
                                            !.steamIDs = game.steamIDs]
                        ELSE tbl[i]],
          err |-> Nil]

\* SELECT ... FROM users WHERE steam_id = $1; fault: the query fails
getUserBySteamID(tbl, steamID, fault) ==
    LET r == {i \in DOMAIN tbl : tbl[i].steamID = steamID}
    IN  IF fault
        THEN [user |-> NoRow, err |-> Wrap("failed to get user", ErrConn)]
        ELSE IF r = {}
        THEN [user |-> NoRow, err |-> Wrap("failed to get user", ErrNoRows)]
        ELSE [user |-> tbl[CHOOSE i \in r : TRUE], err |-> Nil]

\* SELECT ... FROM guilds ORDER BY created_at
getAllGuilds == guilds

HasGuild(tbl, guildID) == \E i \in DOMAIN tbl : tbl[i].guildID = guildID

\* SELECT ... FROM guilds WHERE guild_id = $1
getGuildByGuildID(tbl, guildID) ==
    LET r == {i \in DOMAIN tbl : tbl[i].guildID = guildID}
    IN  IF r = {}
        THEN [guild |-> NoRow, err |-> Wrap("failed to get guild", ErrNoRows)]
        ELSE [guild |-> tbl[CHOOSE i \in r : TRUE], err |-> Nil]

\* an insert that replaces the row of a guild_id that is already there
createGuildOrReplace(tbl, guildID, channelID) ==
    [guilds |-> IF HasGuild(tbl, guildID)
                THEN [i \in DOMAIN tbl |->
                         IF tbl[i].guildID = guildID
                         THEN Guild(guildID, channelID, <<>>) ELSE tbl[i]]
                ELSE Append(tbl, Guild(guildID, channelID, <<>>)),
     err |-> Nil]

\* INSERT INTO guilds (uuid, guild_id, channel_id, user_ids, game_ids);
\* guild_id is UNIQUE
createGuild(tbl, guildID, channelID) ==
    IF HasGuild(tbl, guildID)
    THEN [guilds |-> tbl, err |-> Wrap("failed to create guild", ErrUnique)]
    ELSE [guilds |-> Append(tbl, Guild(guildID, channelID, <<>>)),
          err |-> Nil]

\* UPDATE guilds SET channel_id = $2, user_ids = $3, game_ids = $4
\* WHERE uuid = $1; a row keeps its uuid and its guild_id for ever, so the
\* row of a uuid is the row of its guild_id
updateGuild(tbl, guild) ==
    [i \in DOMAIN tbl |->
        IF tbl[i].guildID = guild.guildID
        THEN [tbl[i] EXCEPT !.channelID = guild.channelID,
                            !.userIDs = guild.userIDs,
                            !.gameIDs = guild.gameIDs]
        ELSE tbl[i]]

\* the uuids uuid.New() can return: those no row and no list has held
FreshUUIDs == {"n1", "n2"}

UsedUUIDs(utbl, gtbl) ==
    {utbl[i].uuid : i \in DOMAIN utbl}
        \cup UNION {{gtbl[i].userIDs[k] : k \in DOMAIN gtbl[i].userIDs} :
                       i \in DOMAIN gtbl}

\* INSERT INTO users (uuid, steam_id, auth_code, last_share_code, game_ids);
\* steam_id is UNIQUE
createUser(utbl, gtbl, steamID, authCode, lastShareCode) ==
    LET free == FreshUUIDs \ UsedUUIDs(utbl, gtbl)
        user == [steamID |-> steamID,
                 uuid |-> IF "n1" \in free THEN "n1" ELSE "n2",
                 authCode |-> authCode, lastShareCode |-> lastShareCode,
                 gameIDs |-> <<>>]
    IN  IF \E i \in DOMAIN utbl : utbl[i].steamID = steamID
        THEN [users |-> utbl, user |-> NoRow,
              err |-> Wrap("failed to create user", ErrUnique)]
        ELSE [users |-> Append(utbl, user), user |-> user, err |-> Nil]

\* UPDATE users SET auth_code = $2, last_share_code = $3, game_ids = $4
\* WHERE uuid = $1
updateUser(tbl, user) ==
    [i \in DOMAIN tbl |->
        IF tbl[i].uuid = user.uuid
        THEN [tbl[i] EXCEPT !.authCode = user.authCode,
                            !.lastShareCode = user.lastShareCode,
                            !.gameIDs = user.gameIDs]
        ELSE tbl[i]]

\* list - x: the list without the elements equal to x
RECURSIVE Without(_, _)
Without(list, x) ==
    IF list = <<>> THEN <<>>
    ELSE IF Head(list) = x THEN Without(Tail(list), x)
    ELSE <<Head(list)>> \o Without(Tail(list), x)

\* UPDATE guilds SET user_ids = user_ids - $1
\* WHERE user_ids @> jsonb_build_array($1)
removeUserFromGuilds(tbl, userUUID) ==
    [i \in DOMAIN tbl |->
        [tbl[i] EXCEPT !.userIDs = Without(@, userUUID)]]

\* DELETE FROM users WHERE steam_id = $1
RECURSIVE deleteUserRow(_, _)
deleteUserRow(tbl, steamID) ==
    IF tbl = <<>> THEN <<>>
    ELSE IF Head(tbl).steamID = steamID THEN deleteUserRow(Tail(tbl), steamID)
    ELSE <<Head(tbl)>> \o deleteUserRow(Tail(tbl), steamID)

\* ensureGuildExists: the guild's row, created with the guild id as channel
\* when getGuildByGuildID returns sql.ErrNoRows itself
ensureGuildExists(tbl, guildID) ==
    LET g == getGuildByGuildID(tbl, guildID)
        c == createGuild(tbl, guildID, guildID)
    IN  IF g.err # Nil
        THEN IF g.err = ErrNoRows
             THEN [guilds |-> c.guilds,
                   guild |-> Guild(guildID, guildID, <<>>), err |-> c.err]
             ELSE [guilds |-> tbl, guild |-> NoRow, err |-> g.err]
        ELSE [guilds |-> tbl, guild |-> g.guild, err |-> Nil]

\* list @> [x]
Contains(list, x) == \E i \in DOMAIN list : list[i] = x

\* an append to user_ids that does not look at what the list holds
addUserToGuildAlways(tbl, guildID, userUUID) ==
    [i \in DOMAIN tbl |->
        IF tbl[i].guildID = guildID
        THEN [tbl[i] EXCEPT !.userIDs = Append(@, userUUID)]
        ELSE tbl[i]]

\* UPDATE guilds SET user_ids = user_ids || $2
\* WHERE guild_id = $1 AND NOT (user_ids @> $2)
addUserToGuild(tbl, guildID, userUUID) ==
    [i \in DOMAIN tbl |->
        IF tbl[i].guildID = guildID /\ ~Contains(tbl[i].userIDs, userUUID)
        THEN [tbl[i] EXCEPT !.userIDs = Append(@, userUUID)]
        ELSE tbl[i]]

\* UPDATE guilds SET game_ids = game_ids || $2
\* WHERE guild_id = $1 AND NOT (game_ids @> $2)
addGameToGuild(tbl, guildID, gameUUID) ==
    [i \in DOMAIN tbl |->
        IF tbl[i].guildID = guildID /\ ~Contains(tbl[i].gameIDs, gameUUID)
        THEN [tbl[i] EXCEPT !.gameIDs = Append(@, gameUUID)]
        ELSE tbl[i]]

\* UPDATE users SET game_ids = game_ids || $2
\* WHERE steam_id = $1 AND NOT (game_ids @> $2)
addGameToUser(tbl, steamID, gameUUID) ==
    [i \in DOMAIN tbl |->
        IF tbl[i].steamID = steamID /\ ~Contains(tbl[i].gameIDs, gameUUID)
        THEN [tbl[i] EXCEPT !.gameIDs = Append(@, gameUUID)]
        ELSE tbl[i]]

(***************************************************************************)
(* Steam API and demo service, as the poller sees them.                    *)
(***************************************************************************)
ErrHTTP == [msg |-> "HTTP request failed"]

PollOutcomes ==
    {[err |-> Nil, nextCode |-> c] : c \in {NoCode, NA} \cup ShareCodes}
        \cup {[err |-> ErrHTTP, nextCode |-> NoCode]}

\* GetNextMatchSharingCode of a provider that answers with the match that
\* follows knowncode: the accounts played C1, C2 and C3 together, in that order.
NextMatchAfter(knowncode) ==
    CASE knowncode = "C1" -> "C2"
      [] knowncode = "C2" -> "C3"
      [] OTHER -> NA

pollUserAPI(user) ==
    IF provider = "faithful"
    THEN {[err |-> Nil, nextCode |-> NextMatchAfter(user.lastShareCode)]}
    ELSE PollOutcomes

NoCodes == [c \in ShareCodes |-> <<>>]
NoReq == [c \in ShareCodes |-> 0]
NoPolls == [ok |-> {}, failed |-> {}]
Keys(cc) == {c \in ShareCodes : cc[c] # <<>>}
AfterCode(rem) == IF rem = {} THEN "select" ELSE "range"
Ticks == cycles[1] + cycles[2]

(***************************************************************************)
(* SteamPoller.Start, Stop and the polling loop.                           *)
(***************************************************************************)
\* a Start that enters the loop whether or not the poller is running
StartUnguarded(l) ==
    /\ ~panicked
    /\ pc[l] = "idle"
    /\ isRunning' = TRUE
    /\ pc' = [pc EXCEPT ![l] = "select"]
    /\ UNCHANGED <<hookVars, ghostVars, commandVars, storeVars, stopClosed, panicked,
                   processedCodes, stops, snap, idx, currentCodes, remaining,
                   cur, demoReq, cycles, cycReq, cycSkipped, provider>>

Start(l) ==
    /\ ~panicked
    /\ pc[l] = "idle"
    /\ IF isRunning
       THEN /\ pc' = [pc EXCEPT ![l] = "returned"]
            /\ UNCHANGED isRunning
       ELSE /\ isRunning' = TRUE
            /\ pc' = [pc EXCEPT ![l] = "select"]
    /\ UNCHANGED <<hookVars, ghostVars, commandVars, storeVars, stopClosed, panicked, processedCodes, stops, snap,
                   idx, currentCodes, remaining, cur, demoReq, cycles, cycReq,
                   cycSkipped, provider>>

Stop ==
    /\ ~panicked
    /\ stops < MaxStops
    /\ stops' = stops + 1
    /\ IF ~isRunning
       THEN UNCHANGED <<isRunning, stopClosed, panicked, stopAt>>
       ELSE /\ isRunning' = FALSE
            /\ IF stopClosed
               THEN panicked' = TRUE /\ UNCHANGED <<stopClosed, stopAt>>
               ELSE /\ stopClosed' = TRUE
                    /\ stopAt' = IF "stopAt" \in history THEN pc ELSE stopAt
                    /\ UNCHANGED panicked
    /\ UNCHANGED <<hookVars, discovered, sinceCheck, cycPolled, history, commandVars, storeVars,
                   processedCodes, pc, snap, idx, currentCodes,
                   remaining, cur, demoReq, cycles, cycReq, cycSkipped, provider>>

\* a loop that leaves as soon as stopChan is closed, wherever it is
ExitLoopAnywhere(l) ==
    /\ ~panicked
    /\ pc[l] \notin {"idle", "returned", "exited"}
    /\ stopClosed
    /\ pc' = [pc EXCEPT ![l] = "exited"]
    /\ UNCHANGED <<hookVars, ghostVars, commandVars, storeVars, isRunning, stopClosed,
                   panicked, processedCodes, stops, snap, idx, currentCodes,
                   remaining, cur, demoReq, cycles, cycReq, cycSkipped,
                   provider>>

\* select: case <-sp.stopChan
ExitLoop(l) ==
    /\ ~panicked
    /\ pc[l] = "select"
    /\ stopClosed
    /\ pc' = [pc EXCEPT ![l] = "exited"]
    /\ UNCHANGED <<hookVars, ghostVars, commandVars, storeVars, isRunning, stopClosed, panicked, processedCodes,
                   stops, snap, idx, currentCodes, remaining, cur, demoReq,
                   cycles, cycReq, cycSkipped, provider>>

\* select: case <-ticker.C, and pollAllUsers up to the range over users
Tick(l) ==
    /\ ~panicked
    /\ pc[l] = "select"
    /\ Ticks < MaxCycles \/ provider = "faithful"
    /\ cycles' = [cycles EXCEPT ![l] = IF Ticks < MaxCycles THEN @ + 1 ELSE @]
    /\ currentCodes' = [currentCodes EXCEPT ![l] = NoCodes]
    /\ cycReq' = [cycReq EXCEPT ![l] = NoReq]
    /\ cycSkipped' = [cycSkipped EXCEPT ![l] = {}]
    /\ cycPolled' = IF "cycPolled" \in history
                    THEN [cycPolled EXCEPT ![l] = NoPolls] ELSE cycPolled
    /\ remaining' = [remaining EXCEPT ![l] = {}]
    /\ idx' = [idx EXCEPT ![l] = 1]
    /\ \/ /\ storeFaults < MaxStoreFaults
          /\ provider = "any"
          /\ storeFaults' = storeFaults + 1
          /\ snap' = [snap EXCEPT ![l] = <<>>]
          /\ UNCHANGED pc
       \/ /\ UNCHANGED storeFaults
          /\ snap' = [snap EXCEPT ![l] = getAllUsers]
          /\ pc' = [pc EXCEPT ![l] = IF Len(getAllUsers) = 0 THEN "select" ELSE "poll"]
    /\ UNCHANGED <<hookVars, discovered, stopAt, sinceCheck, history, commandVars, users, guilds,
                   games, isRunning, stopClosed, panicked, processedCodes,
                   stops, cur, demoReq, provider>>

\* a range over users that gives up when a poll fails
NextUserOrAbort(i, n, err) == IF err # Nil THEN n + 1 ELSE i + 1

\* the position of the range over the n users after the iteration at i, the
\* poll of which returned err: an error is logged and the range continues
NextUser(i, n, err) == i + 1

\* a test that takes every code the provider answers with
IsCandidateAnyCode(user, r) ==
    r.err = Nil /\ r.nextCode # NoCode /\ r.nextCode # NA

\* nextCode != "" && nextCode != "n/a" && nextCode != user.LastShareCode,
\* reached when the poll returned no error
IsCandidate(user, r) ==
    /\ r.err = Nil
    /\ r.nextCode # NoCode
    /\ r.nextCode # NA
    /\ r.nextCode # user.lastShareCode

\* one iteration of the range over users: an account without last share code
\* is skipped, any other is polled
PollUser(l) ==
    /\ ~panicked
    /\ pc[l] = "poll"
    /\ LET user == snap[l][idx[l]]
       IN  \E r \in IF user.lastShareCode = NoCode
                    THEN {[err |-> Nil, nextCode |-> NoCode]}
                    ELSE pollUserAPI(user) :
              LET cc == IF IsCandidate(user, r)
                        THEN [currentCodes[l] EXCEPT
                                 ![r.nextCode] = Append(@, user)]
                        ELSE currentCodes[l]
                  next == NextUser(idx[l], Len(snap[l]), r.err)
                  last == next > Len(snap[l])
              IN  /\ currentCodes' = [currentCodes EXCEPT ![l] = cc]
                  /\ cycPolled' =
                        IF user.lastShareCode = NoCode \/ "cycPolled" \notin history
                        THEN cycPolled
                        ELSE IF r.err = Nil
                        THEN [cycPolled EXCEPT ![l].ok = @ \cup {user.steamID}]
                        ELSE [cycPolled EXCEPT
                                 ![l].failed = @ \cup {user.steamID}]
                  /\ idx' = [idx EXCEPT ![l] = next]
                  /\ remaining' = [remaining EXCEPT
                                      ![l] = IF last THEN Keys(cc) ELSE {}]
                  /\ pc' = [pc EXCEPT
                               ![l] = IF last THEN AfterCode(Keys(cc)) ELSE "poll"]
    /\ UNCHANGED <<hookVars, discovered, stopAt, sinceCheck, history, commandVars, storeVars,
                   isRunning, stopClosed, panicked, processedCodes, stops,
                   snap, cur, demoReq, cycles, cycReq, cycSkipped, provider>>

(***************************************************************************)
(* SteamPoller.processNewMatch, one step per critical section or call.     *)
(***************************************************************************)
\* range over currentCodes (in any order), and the RLock'ed membership check
CheckProcessed(l) ==
    /\ ~panicked
    /\ pc[l] = "range"
    /\ \E shareCode \in remaining[l] :
          LET rem == remaining[l] \ {shareCode}
          IN  /\ remaining' = [remaining EXCEPT ![l] = rem]
              /\ IF shareCode \in processedCodes
                 THEN /\ pc' = [pc EXCEPT ![l] = AfterCode(rem)]
                      /\ cycSkipped' = [cycSkipped EXCEPT ![l] = @ \cup {shareCode}]
                      /\ UNCHANGED cur
                 ELSE /\ pc' = [pc EXCEPT ![l] = "mark"]
                      /\ cur' = [cur EXCEPT ![l] = shareCode]
                      /\ UNCHANGED cycSkipped
    /\ UNCHANGED <<hookVars, ghostVars, commandVars, storeVars, isRunning, stopClosed, panicked, processedCodes,
                   stops, snap, idx, currentCodes, demoReq, cycles, cycReq,
                   provider>>

\* sp.processedCodes[shareCode] = true, under the write lock
MarkProcessed(l) ==
    /\ ~panicked
    /\ pc[l] = "mark"
    /\ processedCodes' = processedCodes \cup {cur[l]}
    /\ sinceCheck' = IF "sinceCheck" \in history THEN sinceCheck + 1
                   ELSE sinceCheck
    /\ pc' = [pc EXCEPT ![l] = "update"]
    /\ UNCHANGED <<hookVars, discovered, stopAt, cycPolled, history, commandVars, storeVars, isRunning, stopClosed, panicked, stops, snap, idx,
                   currentCodes, remaining, cur, demoReq, cycles, cycReq,
                   cycSkipped, provider>>

\* an update loop that returns at the first call that fails
RECURSIVE UpdateAllUntilFailure(_, _, _, _)
UpdateAllUntilFailure(tbl, group, shareCode, failed) ==
    IF group = <<>> \/ Head(group).steamID \in failed
    THEN tbl
    ELSE UpdateAllUntilFailure(
             updateUserLastShareCode(tbl, Head(group).steamID, shareCode),
             Tail(group), shareCode, failed)

\* the users table after updateUserLastShareCode for each of `group` in turn,
\* the calls for the steam IDs in `failed` returning an error
RECURSIVE UpdateAll(_, _, _, _)
UpdateAll(tbl, group, shareCode, failed) ==
    IF group = <<>>
    THEN tbl
    ELSE UpdateAll(IF Head(group).steamID \in failed
                   THEN tbl
                   ELSE updateUserLastShareCode(tbl, Head(group).steamID, shareCode),
                   Tail(group), shareCode, failed)

\* the loop "Update last share code for all users"
UpdateUsers(l) ==
    /\ ~panicked
    /\ pc[l] = "update"
    /\ LET group == currentCodes[l][cur[l]]
           ids == {group[k].steamID : k \in DOMAIN group}
       IN  \E failed \in SUBSET ids :
              /\ storeFaults + Cardinality(failed) <= MaxStoreFaults
              /\ failed # {} => provider = "any"
              /\ storeFaults' = storeFaults + Cardinality(failed)
              /\ users' = UpdateAll(users, group, cur[l], failed)
    /\ pc' = [pc EXCEPT ![l] = "request"]
    /\ UNCHANGED <<hookVars, ghostVars, commandVars, guilds, games, isRunning, stopClosed,
                   panicked, processedCodes, stops, snap, idx, currentCodes,
                   remaining, cur, demoReq, cycles, cycReq, cycSkipped, provider>>

\* requestDemoDownload: the POST {parseURL}/getDemo/{shareCode} leaves
RequestDemoDownload(l) ==
    /\ ~panicked
    /\ pc[l] = "request"
    /\ demoReq' = [demoReq EXCEPT ![cur[l]].issued = @ + 1,
                                  ![cur[l]].inflight = @ + 1]
    /\ cycReq' = [cycReq EXCEPT ![l][cur[l]] = @ + 1]
    /\ discovered' = [discovered EXCEPT
                          ![cur[l]] = @ \cup {currentCodes[l][cur[l]][k].steamID :
                                                k \in DOMAIN currentCodes[l][cur[l]]}]
    /\ pc' = [pc EXCEPT ![l] = "wait"]
    /\ UNCHANGED <<hookVars, stopAt, sinceCheck, cycPolled, history, commandVars, storeVars, isRunning, stopClosed, panicked, processedCodes,
                   stops, snap, idx, currentCodes, remaining, cur, cycles,
                   cycSkipped, provider>>

\* requestDemoDownload returns: nil, or an error (transport, status, body)
DownloadResponse(l) ==
    /\ ~panicked
    /\ pc[l] = "wait"
    /\ \E ok \in BOOLEAN :
          IF ok
          THEN /\ demoReq' = [demoReq EXCEPT ![cur[l]].inflight = @ - 1,
                                             ![cur[l]].ok = @ + 1]
               /\ pc' = [pc EXCEPT ![l] = AfterCode(remaining[l])]
          ELSE /\ demoReq' = [demoReq EXCEPT ![cur[l]].inflight = @ - 1,
                                             ![cur[l]].failed = @ + 1]
               /\ pc' = [pc EXCEPT ![l] = "unmark"]
    /\ UNCHANGED <<hookVars, ghostVars, commandVars, storeVars, isRunning, stopClosed, panicked, processedCodes,
                   stops, snap, idx, currentCodes, remaining, cur, cycles,
                   cycReq, cycSkipped, provider>>

\* delete(sp.processedCodes, shareCode), under the write lock
UnmarkProcessed(l) ==
    /\ ~panicked
    /\ pc[l] = "unmark"
    /\ processedCodes' = processedCodes \ {cur[l]}
    /\ pc' = [pc EXCEPT ![l] = AfterCode(remaining[l])]
    /\ UNCHANGED <<hookVars, ghostVars, commandVars, storeVars, isRunning, stopClosed, panicked, stops, snap, idx,
                   currentCodes, remaining, cur, demoReq, cycles, cycReq,
                   cycSkipped, provider>>

\* a cleanup that clears as soon as the set has reached the mark
CleanupAtMark(codes) == IF Cardinality(codes) >= HighWater THEN {} ELSE codes

\* sp.processedCodes after CleanupProcessedCodes
CleanupProcessedCodes(codes) ==
    IF Cardinality(codes) > HighWater THEN {} ELSE codes

\* a call of CleanupProcessedCodes, at any time, under the write lock
Cleanup ==
    /\ ~panicked
    /\ processedCodes' = CleanupProcessedCodes(processedCodes)
    /\ sinceCheck' = 0
    /\ UNCHANGED <<hookVars, discovered, stopAt, cycPolled, history, commandVars,
                   storeVars, isRunning, stopClosed, panicked, stops, pc,
                   snap, idx, currentCodes, remaining, cur, demoReq, cycles,
                   cycReq, cycSkipped, provider>>

(***************************************************************************)
(* sp.mutex, a sync.RWMutex.  A goroutine holds it from the step after its *)
(* Lock or RLock to the step of its Unlock or RUnlock, so who holds it     *)
(* follows from where the goroutines are: a loop by its pc, a caller of    *)
(* IsRunning, Stop or CleanupProcessedCodes by its entry in cmds.          *)
(***************************************************************************)
\* a processNewMatch that unlocks by defer: the write lock taken for the
\* marking is held until the function returns
WriteLockedDeferred(at) ==
    at \in {"wlocked", "update", "request", "wait", "unmark", "dlocked"}

\* the positions of a loop between sp.mutex.Lock() and sp.mutex.Unlock()
WriteLocked(at) == at \in {"wlocked", "dlocked"}

\* the positions of a loop between sp.mutex.RLock() and sp.mutex.RUnlock()
ReadLocked(at) == at = "rlocked"

\* the loops and the callers that hold the mutex for writing, for reading
LoopWriters == {l \in Loops : WriteLocked(pc[l])}
CallWriters ==
    {p \in Procs : cmds[p].op \in {"Stop", "CleanupProcessedCodes"}}
LoopReaders == {l \in Loops : ReadLocked(pc[l])}
CallReaders == {p \in Procs : cmds[p].op = "IsRunning"}

\* Lock returns when nobody holds the mutex, RLock when no writer holds it
CanRLock == LoopWriters = {} /\ CallWriters = {}
CanLock == CanRLock /\ LoopReaders = {} /\ CallReaders = {}

LockFrame ==
    UNCHANGED <<hookVars, ghostVars, storeVars, isRunning, stopClosed,
                panicked, stops, snap, idx, currentCodes, demoReq, cycles,
                cycReq, provider>>

\* Start: Lock, the test of isRunning, Unlock
StartLocked(l) ==
    /\ CanLock
    /\ Start(l)

\* processNewMatch: range over currentCodes, sp.mutex.RLock()
CheckRLock(l) ==
    /\ ~panicked
    /\ pc[l] = "range"
    /\ CanRLock
    /\ \E shareCode \in remaining[l] :
          /\ remaining' = [remaining EXCEPT ![l] = @ \ {shareCode}]
          /\ cur' = [cur EXCEPT ![l] = shareCode]
    /\ pc' = [pc EXCEPT ![l] = "rlocked"]
    /\ UNCHANGED <<processedCodes, cycSkipped, commandVars>>
    /\ LockFrame

\* if sp.processedCodes[shareCode] { RUnlock; return }; RUnlock
CheckRUnlock(l) ==
    /\ ~panicked
    /\ pc[l] = "rlocked"
    /\ IF cur[l] \in processedCodes
       THEN /\ pc' = [pc EXCEPT ![l] = AfterCode(remaining[l])]
            /\ cycSkipped' = [cycSkipped EXCEPT ![l] = @ \cup {cur[l]}]
       ELSE /\ pc' = [pc EXCEPT ![l] = "lock"]
            /\ UNCHANGED cycSkipped
    /\ UNCHANGED <<processedCodes, remaining, cur, commandVars>>
    /\ LockFrame

\* sp.mutex.Lock() before the marking
MarkLock(l) ==
    /\ ~panicked
    /\ pc[l] = "lock"
    /\ CanLock
    /\ pc' = [pc EXCEPT ![l] = "wlocked"]
    /\ UNCHANGED <<processedCodes, remaining, cur, cycSkipped, commandVars>>
    /\ LockFrame

\* sp.processedCodes[shareCode] = true; sp.mutex.Unlock()
MarkUnlock(l) ==
    /\ ~panicked
    /\ pc[l] = "wlocked"
    /\ processedCodes' = processedCodes \cup {cur[l]}
    /\ pc' = [pc EXCEPT ![l] = "update"]
    /\ UNCHANGED <<remaining, cur, cycSkipped, commandVars>>
    /\ LockFrame

\* sp.mutex.Lock() after requestDemoDownload returned an error
UnmarkLock(l) ==
    /\ ~panicked
    /\ pc[l] = "unmark"
    /\ CanLock
    /\ pc' = [pc EXCEPT ![l] = "dlocked"]
    /\ UNCHANGED <<processedCodes, remaining, cur, cycSkipped, commandVars>>
    /\ LockFrame

\* delete(sp.processedCodes, shareCode); sp.mutex.Unlock()
UnmarkUnlock(l) ==
    /\ ~panicked
    /\ pc[l] = "dlocked"
    /\ processedCodes' = processedCodes \ {cur[l]}
    /\ pc' = [pc EXCEPT ![l] = AfterCode(remaining[l])]
    /\ UNCHANGED <<remaining, cur, cycSkipped, commandVars>>
    /\ LockFrame

\* a call of IsRunning, Stop or CleanupProcessedCodes from another goroutine
\* gets the mutex; waiting: loop 1 is waiting for the answer to its download
\* request at that time
Acquire(p, op) ==
    /\ ~panicked
    /\ cmds[p] = Idle
    /\ Len(cmdLog) + Cardinality({q \in Procs : cmds[q] # Idle}) < MaxCommands
    /\ IF op = "IsRunning" THEN CanRLock ELSE CanLock
    /\ cmds' = [cmds EXCEPT ![p] = [op |-> op, waiting |-> pc[1] = "wait"]]
    /\ UNCHANGED <<cmdLog, pc, processedCodes, remaining, cur, cycSkipped>>
    /\ LockFrame

\* IsRunning: return sp.isRunning; the deferred RUnlock
IsRunningReturn(p) ==
    /\ ~panicked
    /\ cmds[p].op = "IsRunning"
    /\ cmds' = [cmds EXCEPT ![p] = Idle]
    /\ cmdLog' = Append(cmdLog, [op |-> "IsRunning",
                                 waiting |-> cmds[p].waiting,
                                 result |-> isRunning])
    /\ UNCHANGED <<pc, processedCodes, remaining, cur, cycSkipped>>
    /\ LockFrame

\* Stop after its Lock: the test of isRunning, close(sp.stopChan), and the
\* deferred Unlock; close of a closed channel panics
StopReturn(p) ==
    /\ ~panicked
    /\ cmds[p].op = "Stop"
    /\ cmds' = [cmds EXCEPT ![p] = Idle]
    /\ cmdLog' = Append(cmdLog, [op |-> "Stop", waiting |-> cmds[p].waiting])
    /\ IF ~isRunning
       THEN UNCHANGED <<isRunning, stopClosed, panicked>>
       ELSE /\ isRunning' = FALSE
            /\ IF stopClosed
               THEN panicked' = TRUE /\ UNCHANGED stopClosed
               ELSE stopClosed' = TRUE /\ UNCHANGED panicked
    /\ UNCHANGED <<hookVars, ghostVars, storeVars, pc, processedCodes, stops,
                   snap, idx, currentCodes, remaining, cur, demoReq, cycles,
                   cycReq, cycSkipped, provider>>

\* CleanupProcessedCodes after its Lock, and the deferred Unlock
CleanupReturn(p) ==
    /\ ~panicked
    /\ cmds[p].op = "CleanupProcessedCodes"
    /\ cmds' = [cmds EXCEPT ![p] = Idle]
    /\ cmdLog' = Append(cmdLog, [op |-> "CleanupProcessedCodes",
                                 waiting |-> cmds[p].waiting])
    /\ processedCodes' = CleanupProcessedCodes(processedCodes)
    /\ UNCHANGED <<pc, remaining, cur, cycSkipped>>
    /\ LockFrame

(***************************************************************************)
(* Webhook ingestor.  A handler runs from the request to its response in   *)
(* one step.  A payload is the request body; BadJSON is a body that        *)
(* ShouldBindJSON rejects.                                                 *)
(***************************************************************************)
HookCodes == {"C1", "C2"}
BadJSON == [json |-> FALSE]

DemoReadyPayload(success, shareCode, demoPath) ==
    [json |-> TRUE, success |-> success, share_code |-> shareCode,
     demo_path |-> demoPath]

DemoParsedPayload(success, shareCode, stats) ==
    [json |-> TRUE, success |-> success, share_code |-> shareCode,
     stats |-> stats]

ReadyPayloads ==
    {BadJSON, DemoReadyPayload(FALSE, "C1", "demo.dem"),
     DemoReadyPayload(TRUE, NoCode, "demo.dem"),
     DemoReadyPayload(TRUE, "C1", "")}
        \cup {DemoReadyPayload(TRUE, c, "demo.dem") : c \in HookCodes}

ParsedPayloads ==
    {BadJSON, DemoParsedPayload(FALSE, "C1", "stats"),
     DemoParsedPayload(TRUE, NoCode, "stats")}
        \cup {DemoParsedPayload(TRUE, c, st) : c \in HookCodes,
                                              st \in {"nil", "stats"}}

\* the subsets of S with at most n elements
UpTo(S, n) == {F \in SUBSET S : Cardinality(F) <= n}

\* the part of a store call a failure is injected in
StoreFaultAt == {"none", "read", "write"}

\* known: a row for the share code was in games when the request arrived;
\* storeOK: no store call of the handler failed
Response(hook, p, status, known, storeOK) ==
    [hook |-> hook, payload |-> p, status |-> status, known |-> known,
     storeOK |-> storeOK]

HasGame(tbl, shareCode) == \E i \in DOMAIN tbl : tbl[i].shareCode = shareCode

createOrUpdateGame(tbl, shareCode, demoPath, fault) ==
    LET g == getGameByShareCode(tbl, shareCode, fault = "read")
    IN  IF g.err = ErrNoRows
        THEN LET c == createGame(tbl, shareCode, demoPath, <<>>, fault = "write")
             IN  [games |-> c.games,
                  err |-> IF c.err # Nil
                          THEN Wrap("failed to create game", c.err) ELSE Nil,
                  faulted |-> fault = "write"]
        ELSE IF g.err # Nil
        THEN [games |-> tbl,
              err |-> Wrap("failed to check existing game", g.err),
              faulted |-> fault = "read"]
        ELSE LET u == updateGame(tbl, [g.game EXCEPT !.demoName = demoPath],
                                 fault = "write")
             IN  [games |-> u.games,
                  err |-> IF u.err # Nil
                          THEN Wrap("failed to update game", u.err) ELSE Nil,
                  faulted |-> fault = "write"]

\* a validation that does not look at demo_path
ReadyRejectedNoPath(p) == p = BadJSON \/ ~p.success \/ p.share_code = ""

\* HandleDemoReady answers 400: the body does not bind, success is false, or
\* share_code or demo_path is empty
ReadyRejected(p) ==
    p = BadJSON \/ ~p.success \/ p.share_code = "" \/ p.demo_path = ""

\* a handler that fails the webhook when the parseDemo request fails
ReadyStatusParseFails(err, parseFailed) ==
    IF err # Nil \/ parseFailed THEN 500 ELSE 200

\* the status HandleDemoReady answers once the payload is valid: err is the
\* error of createOrUpdateGame; an error of the parseDemo request is logged
ReadyStatus(err, parseFailed) == IF err # Nil THEN 500 ELSE 200

HandleDemoReady(p) ==
    /\ ~panicked
    /\ Len(hookLog) < MaxDeliveries
    /\ IF ReadyRejected(p)
       THEN /\ hookLog' = Append(hookLog,
                             Response("demoReady", p, 400, FALSE, TRUE))
            /\ UNCHANGED <<games, storeFaults, parseReq>>
       ELSE \E fault \in StoreFaultAt, parsed \in BOOLEAN :
              LET r == createOrUpdateGame(games, p.share_code, p.demo_path,
                                          fault)
                  known == HasGame(games, p.share_code)
              IN  /\ r.faulted => storeFaults < MaxStoreFaults
                  /\ ~r.faulted => fault = "none"   \* the call was not reached
                  /\ storeFaults' = storeFaults + IF r.faulted THEN 1 ELSE 0
                  /\ games' = r.games
                  /\ IF r.err # Nil
                     THEN /\ hookLog' = Append(hookLog,
                                 Response("demoReady", p,
                                          ReadyStatus(r.err, FALSE), known,
                                          ~r.faulted))
                          /\ UNCHANGED parseReq
                     ELSE /\ parseReq' =
                                 IF steamPoller = "nil" THEN parseReq
                                 ELSE [parseReq EXCEPT
                                         ![p.share_code].issued = @ + 1,
                                         ![p.share_code].ok =
                                             @ + IF parsed THEN 1 ELSE 0,
                                         ![p.share_code].failed =
                                             @ + IF parsed THEN 0 ELSE 1]
                          /\ hookLog' = Append(hookLog,
                                 Response("demoReady", p,
                                          ReadyStatus(r.err,
                                              steamPoller # "nil" /\ ~parsed),
                                          known, TRUE))
    /\ UNCHANGED <<users, guilds, pollerVars, ghostVars, commandVars, fanouts, steamPoller>>

(***************************************************************************)
(* HandleDemoReady as gin runs it: every request in a goroutine of its     *)
(* own, so the statements of two requests interleave.  The database works. *)
(***************************************************************************)
\* createOrUpdateGame after its lookup returned g
writeGame(tbl, g, shareCode, demoPath) ==
    IF g.err = ErrNoRows
    THEN LET c == createGame(tbl, shareCode, demoPath, <<>>, FALSE)
         IN  [games |-> c.games,
              err |-> IF c.err # Nil
                      THEN Wrap("failed to create game", c.err) ELSE Nil]
    ELSE IF g.err # Nil
    THEN [games |-> tbl, err |-> Wrap("failed to check existing game", g.err)]
    ELSE LET u == updateGame(tbl, [g.game EXCEPT !.demoName = demoPath], FALSE)
         IN  [games |-> u.games,
              err |-> IF u.err # Nil
                      THEN Wrap("failed to update game", u.err) ELSE Nil]

\* the entry of cmdLog for a webhook request that has been answered
Answered(c, status) == [op |-> c.op, cmd |-> c, status |-> status]

\* HandleDemoReady up to the SELECT of createOrUpdateGame
DemoReadyLookup(p, payload) ==
    /\ cmds[p] = Idle
    /\ Len(cmdLog) + Cardinality({q \in Procs : cmds[q] # Idle})
           < MaxCommands
    /\ LET c == [op |-> "demoReady", payload |-> payload,
                 known |-> ~ReadyRejected(payload)
                              /\ HasGame(games, payload.share_code),
                 began |-> Len(cmdLog)]
       IN  IF ReadyRejected(payload)
           THEN /\ cmds' = cmds
                /\ cmdLog' = Append(cmdLog, Answered(c, 400))
           ELSE /\ cmds' = [cmds EXCEPT ![p] =
                               c @@ [found |-> getGameByShareCode(
                                         games, payload.share_code, FALSE)]]
                /\ UNCHANGED cmdLog
    /\ UNCHANGED <<storeVars, pollerVars, ghostVars, hookVars>>

\* the INSERT or UPDATE of createOrUpdateGame, the parseDemo request and the
\* response
DemoReadyWrite(p) ==
    /\ cmds[p].op = "demoReady"
    /\ LET c == cmds[p]
           w == writeGame(games, c.found, c.payload.share_code,
                          c.payload.demo_path)
       IN  /\ games' = w.games
           /\ cmds' = [cmds EXCEPT ![p] = Idle]
           /\ IF w.err # Nil
              THEN /\ cmdLog' = Append(cmdLog, Answered(c, 500))
                   /\ UNCHANGED parseReq
              ELSE /\ \E parsed \in BOOLEAN :
                        parseReq' =
                            IF steamPoller = "nil" THEN parseReq
                            ELSE [parseReq EXCEPT
                                    ![c.payload.share_code].issued = @ + 1,
                                    ![c.payload.share_code].ok =
                                        @ + IF parsed THEN 1 ELSE 0,
                                    ![c.payload.share_code].failed =
                                        @ + IF parsed THEN 0 ELSE 1]
                   /\ cmdLog' = Append(cmdLog, Answered(c, 200))
    /\ UNCHANGED <<users, guilds, storeFaults, pollerVars, ghostVars, hookLog,
                   fanouts, steamPoller>>

(***************************************************************************)
(* Notification fan-out.                                                   *)
(***************************************************************************)
\* main calls SetWebhookContext(dg) before it starts the webhook server
webhookCtx == "set"

Members(guild) == {guild.userIDs[k] : k \in DOMAIN guild.userIDs}

\* the assignments guildsToNotify[guild.GuildID] = guild that the loop over
\* game.SteamIDs makes, in program order; failed: the iterations in which
\* getUserBySteamID or getAllGuilds fails
RECURSIVE Matches(_, _, _)
Matches(steamIDs, i, failed) ==
    IF i > Len(steamIDs) THEN <<>>
    ELSE LET u == getUserBySteamID(users, steamIDs[i], i \in failed)
             hits == IF u.err # Nil THEN <<>>
                     ELSE SelectSeq(getAllGuilds,
                                    LAMBDA g : u.user.uuid \in Members(g))
         IN  [k \in DOMAIN hits |-> hits[k].guildID]
                 \o Matches(steamIDs, i + 1, failed)

\* a fan-out that keeps a list of communities instead of a map: one entry
\* for every participating member
guildsToNotifyPerMember(steamIDs, failed) == Matches(steamIDs, 1, failed)

\* a fan-out that does not resolve the participants: every community that
\* has a member reference is a target
guildsToNotifyUnresolved(steamIDs, failed) ==
    LET hits == SelectSeq(getAllGuilds, LAMBDA g : Len(g.userIDs) > 0)
    IN  [k \in DOMAIN hits |-> hits[k].guildID]

RECURSIVE MapKeys(_)
MapKeys(assigned) ==
    IF assigned = <<>> THEN <<>>
    ELSE LET front == MapKeys(SubSeq(assigned, 1, Len(assigned) - 1))
             key == assigned[Len(assigned)]
         IN  IF \E k \in DOMAIN front : front[k] = key
             THEN front ELSE Append(front, key)

\* the keys of the map guildsToNotify: a key assigned twice is one entry
guildsToNotify(steamIDs, failed) == MapKeys(Matches(steamIDs, 1, failed))

GuildRow(guildID) ==
    guilds[CHOOSE i \in DOMAIN guilds : guilds[i].guildID = guildID]

\* a summary that lists every participant with an account, whatever
\* community it is sent to
registeredPlayersAnyGuild(guild, steamIDs, i, failed) ==
    SelectSeq(steamIDs,
              LAMBDA sid : getUserBySteamID(users, sid, FALSE).err = Nil)

\* sendMatchSummary: registeredPlayers; failed: the steam ids whose
\* getUserBySteamID fails
RECURSIVE registeredPlayers(_, _, _, _)
registeredPlayers(guild, steamIDs, i, failed) ==
    IF i > Len(steamIDs) THEN <<>>
    ELSE LET u == getUserBySteamID(users, steamIDs[i], i \in failed)
         IN  (IF u.err = Nil /\ u.user.uuid \in Members(guild)
              THEN <<steamIDs[i]>> ELSE <<>>)
                 \o registeredPlayers(guild, steamIDs, i + 1, failed)

Count(seq, x) == Cardinality({k \in DOMAIN seq : seq[k] = x})

\* communities with a member whose account is one of the participants
Eligible(steamIDs) ==
    {guilds[i].guildID : i \in
        {j \in DOMAIN guilds :
            \E k \in DOMAIN steamIDs, n \in DOMAIN users :
                /\ users[n].steamID = steamIDs[k]
                /\ users[n].uuid \in Members(guilds[j])}}

\* a send loop that gives up at the first send that fails
RECURSIVE AttemptsUntilFailure(_, _)
AttemptsUntilFailure(targets, chatFailed) ==
    IF targets = <<>> THEN <<>>
    ELSE IF Head(targets) \in chatFailed THEN <<Head(targets)>>
    ELSE <<Head(targets)>> \o AttemptsUntilFailure(Tail(targets), chatFailed)

\* the communities sendMatchSummary is called for by the range over
\* guildsToNotify: an error of one call is logged and the range goes on
Attempts(targets, chatFailed) == targets

\* one run of sendMatchSummaryToGuilds: sent[g] counts the calls of
\* ChannelMessageSendEmbed for community g, delivered[g] those that succeeded
FanOut(game, stats, failed, failedPlayers, chatFailed) ==
    LET targets == guildsToNotify(game.steamIDs, failed)
        tried == Attempts(targets, chatFailed)
    IN  [shareCode |-> game.shareCode,
         demoName |-> game.demoName,
         steamIDs |-> game.steamIDs,
         nPlayers |-> Len(game.steamIDs),
         stats |-> stats # "nil",
         targets |-> {targets[k] : k \in DOMAIN targets},
         sent |-> [g \in GuildIDs |-> Count(tried, g)],
         delivered |-> [g \in GuildIDs |->
                          IF g \in chatFailed THEN 0 ELSE Count(tried, g)],
         channel |-> [g \in GuildIDs |->
                        IF Count(targets, g) = 0 THEN ""
                        ELSE GuildRow(g).channelID],
         players |-> [g \in GuildIDs |->
                        IF Count(targets, g) = 0 THEN <<>>
                        ELSE registeredPlayers(GuildRow(g), game.steamIDs, 1,
                                 {k \in DOMAIN game.steamIDs :
                                     <<g, k>> \in failedPlayers})],
         eligible |-> Eligible(game.steamIDs),
         storeOK |-> failed = {} /\ failedPlayers = {}]

\* HandleDemoParsed answers 400: the body does not bind, success is false,
\* or share_code is empty
ParsedRejected(p) == p = BadJSON \/ ~p.success \/ p.share_code = ""

\* a handler that fails the webhook when a summary could not be delivered
ParsedStatusUndelivered(err, undelivered) ==
    IF err # Nil \/ undelivered THEN 500 ELSE 200

\* the status HandleDemoParsed answers once the payload is valid: err is the
\* error of getGameByShareCode; undelivered summaries are logged
ParsedStatus(err, undelivered) == IF err # Nil THEN 500 ELSE 200

HandleDemoParsed(p) ==
    /\ ~panicked
    /\ Len(hookLog) < MaxDeliveries
    /\ IF ParsedRejected(p)
       THEN /\ hookLog' = Append(hookLog,
                             Response("demoParsed", p, 400, FALSE, TRUE))
            /\ UNCHANGED <<storeFaults, fanouts>>
       ELSE \E fault \in {"none", "read"} :
              LET g == getGameByShareCode(games, p.share_code, fault = "read")
                  known == HasGame(games, p.share_code)
              IN  /\ fault = "read" => storeFaults < MaxStoreFaults
                  /\ IF g.err # Nil
                     THEN /\ hookLog' = Append(hookLog,
                                 Response("demoParsed", p,
                                          ParsedStatus(g.err, FALSE), known,
                                          fault = "none"))
                          /\ storeFaults' =
                                 storeFaults + IF fault = "read" THEN 1 ELSE 0
                          /\ UNCHANGED fanouts
                     ELSE \E failed \in UpTo(DOMAIN g.game.steamIDs,
                                              MaxStoreFaults - storeFaults) :
                          \E failedPlayers \in
                               UpTo(Eligible(g.game.steamIDs)
                                        \X DOMAIN g.game.steamIDs,
                                    MaxStoreFaults - storeFaults) :
                          \E chatFailed \in SUBSET Eligible(g.game.steamIDs) :
                            LET n == Cardinality(failed)
                                       + Cardinality(failedPlayers)
                                f == FanOut(g.game, p.stats, failed,
                                            failedPlayers, chatFailed)
                            IN  /\ storeFaults + n <= MaxStoreFaults
                                /\ \A fp \in failedPlayers : f.sent[fp[1]] > 0
                                /\ \A c \in chatFailed : f.sent[c] > 0
                                /\ storeFaults' = storeFaults + n
                                /\ fanouts' = IF webhookCtx = "set"
                                              THEN Append(fanouts, f)
                                              ELSE fanouts
                                /\ hookLog' = Append(hookLog,
                                       Response("demoParsed", p,
                                           ParsedStatus(g.err,
                                               webhookCtx = "nil"
                                                   \/ chatFailed # {}),
                                           known, n = 0))
    /\ UNCHANGED <<users, guilds, games, pollerVars, ghostVars, commandVars, parseReq,
                   steamPoller>>

(***************************************************************************)
(* Calls of the store's append statements.  Each is one UPDATE, which the  *)
(* database runs atomically: of two concurrent calls on one row the second *)
(* waits for the first and evaluates its WHERE on the row the first left.  *)
(***************************************************************************)
UserUUIDs == {"u1", "u2", "u3"}
GameUUIDs == {<<"game", c>> : c \in HookCodes}
SteamIDs == {"S1", "S2", "S3"}

\* the entry of cmdLog for a store call
Call(op, key, ref) == [op |-> op, key |-> key, ref |-> ref]

\* everything but the store and cmdLog
CallFrame ==
    UNCHANGED <<storeFaults, pollerVars, ghostVars, hookVars, cmds>>

AddUserToGuild(guildID, userUUID) ==
    /\ Len(cmdLog) < MaxCommands
    /\ guilds' = addUserToGuild(guilds, guildID, userUUID)
    /\ cmdLog' = Append(cmdLog, Call("addUserToGuild", guildID, userUUID))
    /\ UNCHANGED <<users, games>>
    /\ CallFrame

AddGameToGuild(guildID, gameUUID) ==
    /\ Len(cmdLog) < MaxCommands
    /\ guilds' = addGameToGuild(guilds, guildID, gameUUID)
    /\ cmdLog' = Append(cmdLog, Call("addGameToGuild", guildID, gameUUID))
    /\ UNCHANGED <<users, games>>
    /\ CallFrame

AddGameToUser(steamID, gameUUID) ==
    /\ Len(cmdLog) < MaxCommands
    /\ users' = addGameToUser(users, steamID, gameUUID)
    /\ cmdLog' = Append(cmdLog, Call("addGameToUser", steamID, gameUUID))
    /\ UNCHANGED <<guilds, games>>
    /\ CallFrame

(***************************************************************************)
(* Slash commands.  A handler runs in the goroutine the chat session       *)
(* starts for its interaction; every statement it sends to the database is *)
(* one step, and the statements of concurrent handlers interleave.         *)
(***************************************************************************)
\* strings.HasPrefix(lastShareCode, "CSGO-"): the share codes of the model
\* stand for well-formed codes
ValidShareCode(c) == c \in ShareCodes

\* handlers begun so far
Started == Len(cmdLog) + Cardinality({p \in Procs : cmds[p] # Idle})

\* everything but users, guilds, cmds and cmdLog
CmdFrame == UNCHANGED <<games, storeFaults, pollerVars, ghostVars, hookVars>>

\* the entry of cmdLog for a handler that has responded
Responded(c, ok, msg) == [op |-> c.op, cmd |-> c, ok |-> ok, msg |-> msg]

\* respondWithError / respondWithSuccess, and the handler returns
Respond(p, c, ok, msg) ==
    /\ cmds' = [cmds EXCEPT ![p] = Idle]
    /\ cmdLog' = Append(cmdLog, Responded(c, ok, msg))

\* handleRegisterSlashCommand up to ensureGuildExists
RegisterBegin(p, guildID, steamID, authCode, lastShareCode) ==
    /\ cmds[p] = Idle
    /\ Started < MaxCommands
    /\ LET c == [op |-> "register", pc |-> "user", guildID |-> guildID,
                 steamID |-> steamID, authCode |-> authCode,
                 lastShareCode |-> lastShareCode, user |-> NoRow,
                 found |-> FALSE, began |-> Len(cmdLog)]
           e == ensureGuildExists(guilds, guildID)
       IN  IF steamID = "" \/ authCode = "" \/ lastShareCode = ""
           THEN /\ Respond(p, c, FALSE, "All fields are required")
                /\ UNCHANGED guilds
           ELSE IF ~ValidShareCode(lastShareCode)
           THEN /\ Respond(p, c, FALSE, "Invalid share code format")
                /\ UNCHANGED guilds
           ELSE IF e.err # Nil
           THEN /\ Respond(p, c, FALSE, "Failed to process guild")
                /\ guilds' = e.guilds
           ELSE /\ cmds' = [cmds EXCEPT ![p] = c]
                /\ guilds' = e.guilds
                /\ UNCHANGED cmdLog
    /\ UNCHANGED users
    /\ CmdFrame

\* getUserBySteamID and the two comparisons of its error with sql.ErrNoRows
RegisterGetUser(p) ==
    /\ cmds[p].op = "register"
    /\ cmds[p].pc = "user"
    /\ LET c == cmds[p]
           r == getUserBySteamID(users, c.steamID, FALSE)
       IN  IF r.err # Nil /\ r.err # ErrNoRows
           THEN Respond(p, c, FALSE, "Failed to check user registration")
           ELSE /\ cmds' = [cmds EXCEPT ![p] =
                               [c EXCEPT !.pc = "write", !.user = r.user,
                                         !.found = r.err # ErrNoRows]]
                /\ UNCHANGED cmdLog
    /\ UNCHANGED <<users, guilds>>
    /\ CmdFrame

\* updateUser of the account that exists, or createUser
RegisterWriteUser(p) ==
    /\ cmds[p].op = "register"
    /\ cmds[p].pc = "write"
    /\ LET c == cmds[p]
           upd == [c.user EXCEPT !.authCode = c.authCode,
                                 !.lastShareCode = c.lastShareCode]
           new == createUser(users, guilds, c.steamID, c.authCode,
                             c.lastShareCode)
       IN  IF c.found
           THEN /\ users' = updateUser(users, upd)
                /\ cmds' = [cmds EXCEPT ![p] =
                               [c EXCEPT !.pc = "add", !.user = upd]]
                /\ UNCHANGED cmdLog
           ELSE IF new.err # Nil
           THEN /\ Respond(p, c, FALSE, "Failed to create user")
                /\ UNCHANGED users
           ELSE /\ users' = new.users
                /\ cmds' = [cmds EXCEPT ![p] =
                               [c EXCEPT !.pc = "add", !.user = new.user]]
                /\ UNCHANGED cmdLog
    /\ UNCHANGED guilds
    /\ CmdFrame

\* addUserToGuild and the response
RegisterAddUser(p) ==
    /\ cmds[p].op = "register"
    /\ cmds[p].pc = "add"
    /\ guilds' = addUserToGuild(guilds, cmds[p].guildID, cmds[p].user.uuid)
    /\ Respond(p, cmds[p], TRUE,
               IF cmds[p].found THEN "User updated successfully"
               ELSE "User registered successfully")
    /\ UNCHANGED users
    /\ CmdFrame

\* handleRemoveSlashCommand up to its own getUserBySteamID
RemoveBegin(p, steamID) ==
    /\ cmds[p] = Idle
    /\ Started < MaxCommands
    /\ LET c == [op |-> "remove", pc |-> "get", steamID |-> steamID,
                 user |-> NoRow, began |-> Len(cmdLog)]
           r == getUserBySteamID(users, steamID, FALSE)
       IN  IF r.err # Nil
           THEN Respond(p, c, FALSE,
                        IF r.err = ErrNoRows THEN "User not found"
                        ELSE "Failed to check user")
           ELSE /\ cmds' = [cmds EXCEPT ![p] = c]
                /\ UNCHANGED cmdLog
    /\ UNCHANGED <<users, guilds>>
    /\ CmdFrame

\* deleteUser: getUserBySteamID
RemoveGet(p) ==
    /\ cmds[p].op = "remove"
    /\ cmds[p].pc = "get"
    /\ LET c == cmds[p]
           r == getUserBySteamID(users, c.steamID, FALSE)
       IN  IF r.err # Nil
           THEN Respond(p, c, FALSE, "Failed to remove user")
           ELSE /\ cmds' = [cmds EXCEPT ![p] =
                               [c EXCEPT !.pc = "guilds", !.user = r.user]]
                /\ UNCHANGED cmdLog
    /\ UNCHANGED <<users, guilds>>
    /\ CmdFrame

\* deleteUser: the UPDATE that takes the uuid out of every guild
RemoveFromGuilds(p) ==
    /\ cmds[p].op = "remove"
    /\ cmds[p].pc = "guilds"
    /\ guilds' = removeUserFromGuilds(guilds, cmds[p].user.uuid)
    /\ cmds' = [cmds EXCEPT ![p].pc = "delete"]
    /\ UNCHANGED <<users, cmdLog>>
    /\ CmdFrame

\* deleteUser: the DELETE, and the response
RemoveDelete(p) ==
    /\ cmds[p].op = "remove"
    /\ cmds[p].pc = "delete"
    /\ users' = deleteUserRow(users, cmds[p].steamID)
    /\ Respond(p, cmds[p], TRUE, "User has been removed")
    /\ UNCHANGED guilds
    /\ CmdFrame

\* handleSetChannelSlashCommand, updateGuildChannel: ensureGuildExists
SetChannelBegin(p, guildID, channelID) ==
    /\ cmds[p] = Idle
    /\ Started < MaxCommands
    /\ LET c == [op |-> "set_channel", pc |-> "update", guildID |-> guildID,
                 channelID |-> channelID, guild |-> NoRow,
                 began |-> Len(cmdLog)]
           e == ensureGuildExists(guilds, guildID)
       IN  IF e.err # Nil
           THEN /\ Respond(p, c, FALSE, "Failed to update channel")
                /\ guilds' = e.guilds
           ELSE /\ cmds' = [cmds EXCEPT ![p] = [c EXCEPT !.guild = e.guild]]
                /\ guilds' = e.guilds
                /\ UNCHANGED cmdLog
    /\ UNCHANGED users
    /\ CmdFrame

\* updateGuildChannel: guild.ChannelID = channelID; updateGuild(guild)
SetChannelUpdate(p) ==
    /\ cmds[p].op = "set_channel"
    /\ cmds[p].pc = "update"
    /\ guilds' = updateGuild(guilds, [cmds[p].guild EXCEPT
                                         !.channelID = cmds[p].channelID])
    /\ Respond(p, cmds[p], TRUE, "Bot notification channel updated")
    /\ UNCHANGED users
    /\ CmdFrame

(***************************************************************************)
(* Query API: GET /api/v1/match, /user and /guild.  A handler runs from    *)
(* the request to its response in one step.                                *)
(***************************************************************************)
\* the status a query handler answers for the error of its lookup
QueryStatus(err) ==
    IF err = Nil THEN 200 ELSE IF err = ErrNoRows THEN 404 ELSE 500

\* the entry of cmdLog for a query: present, a row for the key was there;
\* fault, the lookup failed in the database
Answer(op, key, status, present, fault) ==
    [op |-> op, key |-> key, status |-> status, present |-> present,
     fault |-> fault]

\* a query handler whose lookup returned err
Query(op, key, err, present, fault) ==
    /\ Len(cmdLog) < MaxCommands
    /\ fault => storeFaults < MaxStoreFaults
    /\ storeFaults' = storeFaults + IF fault /\ key # "" THEN 1 ELSE 0
    /\ cmdLog' = Append(cmdLog,
                        Answer(op, key,
                               IF key = "" THEN 400 ELSE QueryStatus(err),
                               present, fault /\ key # ""))
    /\ UNCHANGED <<users, guilds, games, pollerVars, ghostVars, hookVars,
                   cmds>>

HandleMatchQuery(shareCode, fault) ==
    Query("HandleMatchQuery", shareCode,
          getGameByShareCode(games, shareCode, fault).err,
          HasGame(games, shareCode), fault)

HandleUserQuery(steamID, fault) ==
    Query("HandleUserQuery", steamID,
          getUserBySteamID(users, steamID, fault).err,
          \E i \in DOMAIN users : users[i].steamID = steamID, fault)

HandleGuildQuery(guildID, fault) ==
    Query("HandleGuildQuery", guildID,
          IF fault THEN Wrap("failed to get guild", ErrConn)
          ELSE getGuildByGuildID(guilds, guildID).err,
          HasGuild(guilds, guildID), fault)

(***************************************************************************)
(* Gateway events: guildCreate, guildDelete and ready.  A handler runs     *)
(* from the event to its return in one step.  fault: the database fails    *)
(* the statement the handler issues.                                       *)
(***************************************************************************)
\* the entry of cmdLog for a gateway event about one community
Event(op, guildID, channelID, existed, err, welcomed) ==
    [op |-> op, key |-> guildID, ref |-> channelID, existed |-> existed,
     err |-> err, welcomed |-> welcomed]

\* guildCreate: defaultChannelID is the first channel the bot may write to,
\* the system channel, the first channel, or the guild id itself
GuildCreate(guildID, defaultChannelID, fault) ==
    /\ Len(cmdLog) < MaxCommands
    /\ fault => storeFaults < MaxStoreFaults
    /\ LET c == IF fault
                THEN [guilds |-> guilds,
                      err |-> Wrap("failed to create guild", ErrConn)]
                ELSE createGuild(guilds, guildID, defaultChannelID)
       IN  /\ guilds' = c.guilds
           /\ cmdLog' = Append(cmdLog,
                               Event("guildCreate", guildID, defaultChannelID,
                                     HasGuild(guilds, guildID), c.err,
                                     c.err = Nil
                                         /\ defaultChannelID # guildID))
    /\ storeFaults' = storeFaults + IF fault THEN 1 ELSE 0
    /\ UNCHANGED <<users, games, pollerVars, ghostVars, hookVars, cmds>>

\* guildDelete: the row is read and logged, nothing is written
GuildDelete(guildID, fault) ==
    /\ Len(cmdLog) < MaxCommands
    /\ fault => storeFaults < MaxStoreFaults
    /\ LET g == IF fault
                THEN [guild |-> NoRow,
                      err |-> Wrap("failed to get guild", ErrConn)]
                ELSE getGuildByGuildID(guilds, guildID)
       IN  cmdLog' = Append(cmdLog,
                            Event("guildDelete", guildID, NA,
                                  HasGuild(guilds, guildID), g.err, FALSE))
    /\ storeFaults' = storeFaults + IF fault THEN 1 ELSE 0
    /\ UNCHANGED <<users, guilds, games, pollerVars, ghostVars, hookVars,
                   cmds>>

\* the loop of ready over r.Guilds from position i: err != nil &&
\* err != sql.ErrNoRows logs and continues; err == sql.ErrNoRows creates the
\* row with the default channel; otherwise the guild is already there
RECURSIVE readyFrom(_, _, _, _, _)
readyFrom(tbl, joined, i, faulty, defaultChannelID) ==
    IF i > Len(joined) THEN tbl
    ELSE LET g == IF joined[i] \in faulty
                  THEN [guild |-> NoRow,
                        err |-> Wrap("failed to get guild", ErrConn)]
                  ELSE getGuildByGuildID(tbl, joined[i])
             c == createGuild(tbl, joined[i], defaultChannelID)
         IN  IF g.err # Nil /\ g.err # ErrNoRows
             THEN readyFrom(tbl, joined, i + 1, faulty, defaultChannelID)
             ELSE IF g.err = ErrNoRows
                  THEN readyFrom(c.guilds, joined, i + 1, faulty,
                                 defaultChannelID)
                  ELSE readyFrom(tbl, joined, i + 1, faulty,
                                 defaultChannelID)

\* ready: the bot is in the communities joined; the lookups of the
\* communities in faulty fail in the database
Ready(joined, faulty, defaultChannelID) ==
    /\ Len(cmdLog) < MaxCommands
    /\ faulty \subseteq {joined[i] : i \in DOMAIN joined}
    /\ storeFaults + Cardinality(faulty) <= MaxStoreFaults
    /\ guilds' = readyFrom(guilds, joined, 1, faulty, defaultChannelID)
    /\ cmdLog' = Append(cmdLog, [op |-> "ready", joined |-> joined,
                                 faulty |-> faulty])
    /\ storeFaults' = storeFaults + Cardinality(faulty)
    /\ UNCHANGED <<users, games, pollerVars, ghostVars, hookVars, cmds>>

(***************************************************************************)
(* Initial states.  The database outlives the process: it holds the        *)
(* accounts S1 and S2, registered in that order, and the communities X and *)
(* Y.  NewSteamPoller leaves the poller stopped with an empty code set.    *)
(***************************************************************************)
InitUsers ==
    {<<User("S1", "u1", "C1"), User("S2", "u2", l2)>> : l2 \in {NoCode, "C1"}}

InitGuilds ==
    {<<Guild("X", "chX", <<"u1">>), Guild("Y", "chY", m)>> :
        m \in {<<>>, <<"u2">>}}

InitPollerState ==
    /\ isRunning = FALSE
    /\ stopClosed = FALSE
    /\ panicked = FALSE
    /\ processedCodes = {}
    /\ stops = 0
    /\ pc = [l \in Loops |-> "idle"]
    /\ snap = [l \in Loops |-> <<>>]
    /\ idx = [l \in Loops |-> 1]
    /\ currentCodes = [l \in Loops |-> NoCodes]
    /\ remaining = [l \in Loops |-> {}]
    /\ cur = [l \in Loops |-> NoCode]
    /\ demoReq = [c \in ShareCodes |->
                     [issued |-> 0, inflight |-> 0, ok |-> 0, failed |-> 0]]
    /\ cycles = [l \in Loops |-> 0]
    /\ cycReq = [l \in Loops |-> NoReq]
    /\ cycSkipped = [l \in Loops |-> {}]
    /\ discovered = [c \in ShareCodes |-> {}]
    /\ stopAt = [l \in Loops |-> "none"]
    /\ sinceCheck = 0
    /\ cycPolled = [l \in Loops |-> NoPolls]

\* the poller after NewSteamPoller, without the record of its history
InitPoller == InitPollerState /\ history = {}

\* no handler of the chat session or of the query API has run
InitCommands ==
    /\ cmds = [p \in Procs |-> Idle]
    /\ cmdLog = <<>>

InitHooks ==
    /\ hookLog = <<>>
    /\ parseReq = [c \in ShareCodes |-> [issued |-> 0, ok |-> 0, failed |-> 0]]
    /\ fanouts = <<>>
    /\ steamPoller \in {"nil", "set"}

Init ==
    /\ users \in InitUsers
    /\ guilds \in InitGuilds
    /\ games = <<>>
    /\ storeFaults = 0
    /\ provider = "any"
    /\ InitPoller
    /\ InitHooks
    /\ InitCommands

PollerStep(l) ==
    \/ Start(l)
    \/ ExitLoop(l)
    \/ Tick(l)
    \/ PollUser(l)
    \/ CheckProcessed(l)
    \/ MarkProcessed(l)
    \/ UpdateUsers(l)
    \/ RequestDemoDownload(l)
    \/ DownloadResponse(l)
    \/ UnmarkProcessed(l)

\* one goroutine runs Start; Stop may be called
Next ==
    \/ Stop
    \/ PollerStep(1)

Spec == Init /\ [][Next]_vars

\* one loop and Stop, with the position of the loop at the time of Stop
\* recorded; the store does not fail
InitStop ==
    /\ users = <<User("S1", "u1", "C1"), User("S2", "u2", "C1")>>
    /\ guilds = <<Guild("X", "chX", <<"u1">>), Guild("Y", "chY", <<"u2">>)>>
    /\ games = <<>>
    /\ storeFaults = MaxStoreFaults
    /\ provider = "any"
    /\ InitPollerState
    /\ history = {"stopAt"}
    /\ InitHooks
    /\ InitCommands

SpecStop == InitStop /\ [][Next]_vars

\* Start and Stop called from several goroutines; the store does not fail
InitConc ==
    /\ users \in InitUsers
    /\ guilds \in InitGuilds
    /\ games = <<>>
    /\ storeFaults = MaxStoreFaults
    /\ provider = "any"
    /\ InitPoller
    /\ InitHooks
    /\ InitCommands

NextConc ==
    \/ Stop
    \/ \E l \in Loops : PollerStep(l)

SpecConc == InitConc /\ [][NextConc]_vars

\* the steps of a polling loop that is never stopped
LoopStep(l) ==
    \/ Start(l)
    \/ Tick(l)
    \/ PollUser(l)
    \/ CheckProcessed(l)
    \/ MarkProcessed(l)
    \/ UpdateUsers(l)
    \/ RequestDemoDownload(l)
    \/ DownloadResponse(l)
    \/ UnmarkProcessed(l)

\* Start called from several goroutines, Stop never called
NextStart == \E l \in Loops : LoopStep(l)

SpecStart == InitConc /\ [][NextStart]_vars

\* one loop that is never stopped, and calls of CleanupProcessedCodes; the
\* codes marked since the last call are counted
InitCleanup ==
    /\ users = <<User("S1", "u1", "C1"), User("S2", "u2", "C1")>>
    /\ guilds = <<Guild("X", "chX", <<"u1">>), Guild("Y", "chY", <<"u2">>)>>
    /\ games = <<>>
    /\ storeFaults = MaxStoreFaults
    /\ provider = "any"
    /\ InitPollerState
    /\ history = {"sinceCheck"}
    /\ InitHooks
    /\ InitCommands

NextCleanup ==
    \/ Cleanup
    \/ LoopStep(1)

SpecCleanup == InitCleanup /\ [][NextCleanup]_vars

\* one loop with every Lock and Unlock of sp.mutex a step, and calls of
\* IsRunning, Stop and CleanupProcessedCodes from another goroutine
InitLock ==
    /\ users = <<User("S1", "u1", "C1")>>
    /\ guilds = <<Guild("X", "chX", <<"u1">>)>>
    /\ games = <<>>
    /\ storeFaults = MaxStoreFaults
    /\ provider = "any"
    /\ InitPoller
    /\ InitHooks
    /\ InitCommands
    /\ steamPoller = "set"

NextLock ==
    \/ StartLocked(1)
    \/ ExitLoop(1)
    \/ Tick(1)
    \/ PollUser(1)
    \/ CheckRLock(1)
    \/ CheckRUnlock(1)
    \/ MarkLock(1)
    \/ MarkUnlock(1)
    \/ UpdateUsers(1)
    \/ RequestDemoDownload(1)
    \/ DownloadResponse(1)
    \/ UnmarkLock(1)
    \/ UnmarkUnlock(1)
    \/ \E op \in {"IsRunning", "Stop", "CleanupProcessedCodes"} :
          Acquire("p1", op)
    \/ IsRunningReturn("p1")
    \/ StopReturn("p1")
    \/ CleanupReturn("p1")

SpecLock == InitLock /\ [][NextLock]_vars

\* Start, Stop and IsRunning called in any order on the one poller, in an
\* installation without accounts: pollAllUsers returns at len(users) == 0
InitRestart ==
    /\ users = <<>>
    /\ guilds = <<Guild("X", "chX", <<>>)>>
    /\ games = <<>>
    /\ storeFaults = 0
    /\ provider = "any"
    /\ InitPoller
    /\ InitHooks
    /\ InitCommands
    /\ steamPoller = "set"

NextRestart ==
    \/ \E l \in Loops : StartLocked(l)
    \/ \E l \in Loops : Tick(l)
    \/ \E l \in Loops : ExitLoop(l)
    \/ \E p \in Procs : \E op \in {"IsRunning", "Stop"} : Acquire(p, op)
    \/ \E p \in Procs : IsRunningReturn(p)
    \/ \E p \in Procs : StopReturn(p)

SpecRestart == InitRestart /\ [][NextRestart]_vars

\* one loop that is never stopped, two accounts with the same last share
\* code, and a database that may fail
InitUpdate ==
    /\ users = <<User("S1", "u1", "C1"), User("S2", "u2", "C1")>>
    /\ guilds = <<Guild("X", "chX", <<"u1", "u2">>)>>
    /\ games = <<>>
    /\ storeFaults = 0
    /\ provider = "any"
    /\ InitPoller
    /\ InitHooks
    /\ InitCommands
    /\ steamPoller = "set"

SpecUpdate == InitUpdate /\ [][LoopStep(1)]_vars

\* one loop that is never stopped, with the accounts polled by each cycle
\* recorded; the store does not fail
InitPoll ==
    /\ users \in InitUsers
    /\ guilds \in InitGuilds
    /\ games = <<>>
    /\ storeFaults = MaxStoreFaults
    /\ provider = "any"
    /\ InitPollerState
    /\ history = {"cycPolled"}
    /\ InitHooks
    /\ InitCommands

NextPoll == LoopStep(1)

SpecPoll == InitPoll /\ [][NextPoll]_vars

\* the steps the goroutine takes by itself: the Go scheduler runs it whenever
\* it is runnable.  The answer of the provider to POST /getDemo is not among
\* them: http.Post goes through http.DefaultClient, whose Timeout is zero, and
\* takes no context, so nothing on this side ends the wait.
OwnStep(l) ==
    \/ Start(l)
    \/ Tick(l)
    \/ PollUser(l)
    \/ CheckProcessed(l)
    \/ MarkProcessed(l)
    \/ UpdateUsers(l)
    \/ RequestDemoDownload(l)
    \/ UnmarkProcessed(l)

InitStall ==
    /\ users = <<User("S1", "u1", "C1"), User("S2", "u2", "C1")>>
    /\ guilds \in InitGuilds
    /\ games = <<>>
    /\ storeFaults = MaxStoreFaults
    /\ provider = "any"
    /\ InitPoller
    /\ InitHooks
    /\ InitCommands

\* one polling loop, scheduled fairly, against a provider that may stay silent
SpecStall == InitStall /\ [][NextPoll]_vars /\ WF_vars(OwnStep(1))

\* the Steam API answers every poll with the match after knowncode, and
\* neither the store nor the process stops the loop
InitFaithful ==
    /\ users \in {<<User("S1", "u1", l1), User("S2", "u2", l2)>> :
                     l1 \in {"C1", "C2"}, l2 \in {NoCode, "C1", "C2"}}
    /\ guilds \in InitGuilds
    /\ games = <<>>
    /\ storeFaults = MaxStoreFaults
    /\ provider = "faithful"
    /\ InitPoller
    /\ InitHooks
    /\ InitCommands

NextFaithful ==
    \/ Start(1)
    \/ Tick(1)
    \/ PollUser(1)
    \/ CheckProcessed(1)
    \/ MarkProcessed(1)
    \/ UpdateUsers(1)
    \/ RequestDemoDownload(1)
    \/ DownloadResponse(1)
    \/ UnmarkProcessed(1)

\* the ticker keeps ticking and every call returns
SpecFaithful == InitFaithful /\ [][NextFaithful]_vars /\ WF_vars(NextFaithful)

\* webhook deliveries against a database that already holds match records
InitGames ==
    {<<>>, <<Game("C1", "", <<>>)>>,
     <<Game("C1", "old.dem", <<"S1", "S9">>)>>,
     <<Game("C1", "old.dem", <<"S1", "S2", "S3">>)>>}

InitHookGuilds ==
    {<<Guild("X", "chX", <<"u1">>), Guild("Y", "chY", <<>>)>>,
     <<Guild("X", "chX", <<"u1", "u2">>), Guild("Y", "chY", <<"u2">>)>>,
     <<Guild("X", "chX", <<"u1", "u2">>), Guild("Y", "chY", <<"u3">>)>>}

InitHook ==
    /\ users = <<User("S1", "u1", "C1"), User("S2", "u2", "C1"),
                 User("S3", "u3", "C1")>>
    /\ guilds \in InitHookGuilds
    /\ games \in InitGames
    /\ storeFaults = 0
    /\ provider = "any"
    /\ InitPoller
    /\ InitHooks
    /\ InitCommands

NextHook ==
    \/ \E p \in ReadyPayloads : HandleDemoReady(p)
    \/ \E p \in ParsedPayloads : HandleDemoParsed(p)

SpecHook == InitHook /\ [][NextHook]_vars

\* webhook deliveries for matches without recorded participants
InitIngest ==
    /\ InitHook
    /\ games \in {<<>>, <<Game("C1", "", <<>>)>>}
    /\ guilds = <<Guild("X", "chX", <<"u1">>), Guild("Y", "chY", <<>>)>>

SpecIngest == InitIngest /\ [][NextHook]_vars

\* demoParsed deliveries only: every step is a run of the fan-out
InitFanOut ==
    /\ InitHook
    /\ steamPoller = "set"

NextFanOut == \E p \in ParsedPayloads : HandleDemoParsed(p)

SpecFanOut == InitFanOut /\ [][NextFanOut]_vars

\* calls of the append statements in any order, on any row
NextAdd ==
    \/ \E g \in GuildIDs, u \in UserUUIDs : AddUserToGuild(g, u)
    \/ \E g \in GuildIDs, m \in GameUUIDs : AddGameToGuild(g, m)
    \/ \E st \in SteamIDs, m \in GameUUIDs : AddGameToUser(st, m)

InitAdd ==
    /\ InitFanOut
    /\ games = <<Game("C1", "old.dem", <<"S1", "S2", "S3">>)>>

SpecAdd == InitAdd /\ [][NextAdd]_vars

\* a database with the accounts S1 and S2 and the guilds table gtbl; S3 has
\* no account
InitRegistryOn(gtbl) ==
    /\ users = <<User("S1", "u1", "C1"), User("S2", "u2", "C1")>>
    /\ guilds = gtbl
    /\ games = <<>>
    /\ storeFaults = MaxStoreFaults
    /\ provider = "any"
    /\ InitPoller
    /\ InitHooks
    /\ InitCommands
    /\ steamPoller = "set"

\* S1 is a member of X and of Y
InitRegistry ==
    InitRegistryOn(<<Guild("X", "chX", <<"u1", "u2">>),
                     Guild("Y", "chY", <<"u1">>)>>)

Register(p) ==
    \/ \E g \in GuildIDs, st \in {"S1", "S3"}, last \in {"C2", "bad"} :
          RegisterBegin(p, g, st, "auth2", last)
    \/ RegisterGetUser(p)
    \/ RegisterWriteUser(p)
    \/ RegisterAddUser(p)

Remove(p) ==
    \/ \E st \in {"S1", "S3"} : RemoveBegin(p, st)
    \/ RemoveGet(p)
    \/ RemoveFromGuilds(p)
    \/ RemoveDelete(p)

\* /register and /remove, handled concurrently
NextRemove == \E p \in Procs : Register(p) \/ Remove(p)

SpecRemove == InitRegistry /\ [][NextRemove]_vars

SetChannel(p) ==
    \/ \E g \in GuildIDs : SetChannelBegin(p, g, "chNew")
    \/ SetChannelUpdate(p)

\* /register and /set_channel where community Y has no row
InitEnsure == InitRegistryOn(<<Guild("X", "chX", <<"u1", "u2">>)>>)

NextEnsure == \E p \in Procs : Register(p) \/ SetChannel(p)

SpecEnsure == InitEnsure /\ [][NextEnsure]_vars

\* /register only, every community has its row
NextRegister == \E p \in Procs : Register(p)

SpecRegister == InitRegistry /\ [][NextRegister]_vars

\* demoParsed deliveries for matches with participants that have no account
\* (S9) and communities whose member list holds a reference that resolves to
\* no account (u9): C1 was played by S1 and S9, C2 by S9 alone
InitNotify ==
    /\ users = <<User("S1", "u1", "C1"), User("S2", "u2", "C1")>>
    /\ guilds \in {<<Guild("X", "chX", <<"u1", "u9">>), Guild("Y", "chY", m)>> :
                      m \in {<<"u9">>, <<"u2">>, <<"u9", "u1">>}}
    /\ games = <<Game("C1", "a.dem", <<"S1", "S9">>),
                 Game("C2", "b.dem", <<"S9">>)>>
    /\ storeFaults = 0
    /\ provider = "any"
    /\ InitPoller
    /\ InitHooks
    /\ InitCommands
    /\ steamPoller = "set"

SpecNotify == InitNotify /\ [][NextFanOut]_vars

\* concurrent demoReady deliveries for a known and for an unknown token,
\* /register for a known and for an unknown account, guildCreate for a known
\* and for an unknown community
DemoReady(p) ==
    \/ \E c \in HookCodes : DemoReadyLookup(p, DemoReadyPayload(TRUE, c, "demo.dem"))
    \/ DemoReadyWrite(p)

InitUnique ==
    /\ users = <<User("S1", "u1", "C1"), User("S2", "u2", "C1")>>
    /\ guilds = <<Guild("X", "chX", <<"u1", "u2">>)>>
    /\ games = <<Game("C1", "old.dem", <<"S1", "S2">>)>>
    /\ storeFaults = MaxStoreFaults
    /\ provider = "any"
    /\ InitPoller
    /\ InitHooks
    /\ InitCommands
    /\ steamPoller = "set"

\* demoReady deliveries only
NextReady == \E p \in Procs : DemoReady(p)

SpecReady == InitUnique /\ [][NextReady]_vars

NextUnique ==
    \/ \E p \in Procs : DemoReady(p)
    \/ \E p \in Procs : Register(p)
    \/ \E g \in GuildIDs : GuildCreate(g, "chDef", FALSE)

SpecUnique == InitUnique /\ [][NextUnique]_vars

\* /set_channel while the ingest and /register add references to the same
\* communities
NextChannel ==
    \/ \E p \in Procs : SetChannel(p)
    \/ \E g \in GuildIDs, u \in {"u2", "u3"} : AddUserToGuild(g, u)
    \/ \E g \in GuildIDs : AddGameToGuild(g, <<"game", "C1">>)

SpecChannel == InitRegistry /\ [][NextChannel]_vars

\* one loop that is never stopped while /remove runs for S1, a member of X
\* and Y; the store answers every call
InitPollRemove == InitRegistry

\* /remove of S1: the first call finds the account, a later one does not
RemoveMember(p) ==
    \/ RemoveBegin(p, "S1")
    \/ RemoveGet(p)
    \/ RemoveFromGuilds(p)
    \/ RemoveDelete(p)

NextPollRemove ==
    \/ LoopStep(1)
    \/ RemoveMember("p1")

SpecPollRemove == InitPollRemove /\ [][NextPollRemove]_vars

\* community X has a row with members and a match, community Y has none
InitGuild ==
    /\ users = <<User("S1", "u1", "C1"), User("S2", "u2", "C1")>>
    /\ guilds = <<[Guild("X", "chX", <<"u1", "u2">>)
                      EXCEPT !.gameIDs = <<<<"game", "C1">>>>]>>
    /\ games = <<Game("C1", "demo.dem", <<"S1", "S2">>)>>
    /\ storeFaults = 0
    /\ provider = "any"
    /\ InitPoller
    /\ InitHooks
    /\ InitCommands
    /\ steamPoller = "set"

\* the communities the session reports in its READY event
Joined == {<<"X">>, <<"Y">>, <<"X", "Y">>, <<"Y", "X">>}

NextGuild ==
    \/ \E g \in GuildIDs, fault \in BOOLEAN :
          \E ch \in {"chDef", g} : GuildCreate(g, ch, fault)
    \/ \E g \in GuildIDs, fault \in BOOLEAN : GuildDelete(g, fault)
    \/ \E joined \in Joined, faulty \in SUBSET GuildIDs :
          Ready(joined, faulty, "chDef")

SpecGuild == InitGuild /\ [][NextGuild]_vars

\* queries for entities that have a row and for entities that have none;
\* the database may fail
NextQuery ==
    \E fault \in BOOLEAN :
        \/ \E c \in {"", "C1", "C2"} : HandleMatchQuery(c, fault)
        \/ \E st \in {"", "S1", "S9"} : HandleUserQuery(st, fault)
        \/ \E g \in {"", "X", "Z"} : HandleGuildQuery(g, fault)

SpecQuery == InitFanOut /\ [][NextQuery]_vars

\* hook has been delivered for share code T
Delivered(hook, T) ==
    \E k \in DOMAIN hookLog :
        /\ hookLog[k].hook = hook
        /\ hookLog[k].payload # BadJSON
        /\ hookLog[k].payload.share_code = T

\* the demo service calls the demoReady webhook it was given in the getDemo
\* request once it has accepted that request
ProviderReady ==
    \E T \in HookCodes :
        /\ demoReq[T].ok >= 1
        /\ ~Delivered("demoReady", T)
        /\ HandleDemoReady(DemoReadyPayload(TRUE, T, "demo.dem"))

\* and then the demoParsed webhook
ProviderParsed ==
    \E T \in HookCodes :
        /\ Delivered("demoReady", T)
        /\ ~Delivered("demoParsed", T)
        /\ HandleDemoParsed(DemoParsedPayload(TRUE, T, "stats"))

\* the poller and the webhooks of one process: the Steam API answers every
\* poll with the match after knowncode and the store does not fail
InitPipeline ==
    /\ users \in InitUsers
    /\ guilds \in InitGuilds
    /\ games \in {<<>>, <<Game("C2", "", <<>>)>>,
                  <<Game("C2", "old.dem", <<"S1">>)>>}
    /\ storeFaults = MaxStoreFaults
    /\ provider = "faithful"
    /\ InitPoller
    /\ InitHooks
    /\ InitCommands
    /\ steamPoller = "set"

NextPipeline ==
    \/ NextFaithful
    \/ ProviderReady
    \/ ProviderParsed

SpecPipeline == InitPipeline /\ [][NextPipeline]_vars

(***************************************************************************)
(* Claims about the poller and the deduplicator.                           *)
(***************************************************************************)
\* a poll cycle of loop l has run to its end, and no store call has failed
CycleDone(l) == pc[l] = "select" /\ cycles[l] > 0 /\ storeFaults = 0

Reporters(l, T) == currentCodes[l][T]

\* C1: in a poll cycle in which the accounts that found a new match all
\* report the same token T, getDemo is requested exactly once for T, every
\* reporting account's last-known-token is T when the cycle ends, and no
\* request is issued for an account's previous token.
C1_DedupPerCycle ==
    \A l \in Loops : \A T \in ShareCodes :
        (CycleDone(l) /\ Keys(currentCodes[l]) = {T}) =>
            /\ cycReq[l][T] = 1
            /\ \A k \in DOMAIN Reporters(l, T) :
                  /\ LastShareCodeOf(Reporters(l, T)[k].steamID) = T
                  /\ cycReq[l][Reporters(l, T)[k].lastShareCode] = 0

\* C2: for every interleaving of processNewMatch invocations for one token,
\* the getDemo request is in flight or completed at most once: a further
\* request is issued only after an earlier one has failed.
C2_AtMostOneRequest ==
    \A T \in ShareCodes : demoReq[T].issued - demoReq[T].failed <= 1

\* C3: an account that reports a new token T in a poll cycle has its
\* last-known-token set to T in that cycle, whether or not T is already in
\* the deduplicator's set.
C3_ReportersUpdated ==
    \A l \in Loops : \A T \in ShareCodes :
        CycleDone(l) =>
            \A k \in DOMAIN Reporters(l, T) :
                LastShareCodeOf(Reporters(l, T)[k].steamID) = T

\* C4: a getDemo request for T that failed leaves T out of the
\* deduplicator's set, and with a provider that answers each poll with the
\* match following the account's last-known-token the request for T is
\* issued again in a later cycle.
C4_RetryAfterFailure ==
    \A T \in ShareCodes :
        /\ [](\A l \in Loops :
                (CycleDone(l) /\ demoReq[T].ok = 0) => T \notin processedCodes)
        /\ (demoReq[T].failed >= 1) ~> (demoReq[T].issued >= 2)

(***************************************************************************)
(* Claims about the webhook ingestor and the notification fan-out.         *)
(***************************************************************************)
\* the delivery is a well-formed demoReady / demoParsed for share code T
ValidReady(e, T) ==
    /\ e.hook = "demoReady"
    /\ e.payload # BadJSON
    /\ e.payload.success
    /\ e.payload.share_code = T
    /\ e.payload.demo_path # ""

ValidParsed(e, T) ==
    /\ e.hook = "demoParsed"
    /\ e.payload # BadJSON
    /\ e.payload.success
    /\ e.payload.share_code = T

\* notifications community g has received for share code T in fan-outs 1..k
RECURSIVE Notifications(_, _, _)
Notifications(T, g, k) ==
    IF k = 0 THEN 0
    ELSE Notifications(T, g, k - 1)
           + IF fanouts[k].shareCode = T THEN fanouts[k].delivered[g] ELSE 0

\* C5: when the poller has requested the demo of share code T for account S,
\* demoReady and then demoParsed have been delivered for T, and no store or
\* chat call has failed, every community S is a member of has received a
\* notification for T.
C5_PolledMatchNotifies ==
    \A T \in HookCodes : \A S \in discovered[T] : \A i \in DOMAIN guilds :
        (/\ demoReq[T].ok >= 1
         /\ getUserBySteamID(users, S, FALSE).user.uuid \in Members(guilds[i])
         /\ \E j, k \in DOMAIN hookLog :
               /\ j < k
               /\ ValidReady(hookLog[j], T)
               /\ ValidParsed(hookLog[k], T)
         /\ \A k \in DOMAIN hookLog : hookLog[k].storeOK
         /\ \A k \in DOMAIN fanouts :
               /\ fanouts[k].storeOK
               /\ fanouts[k].delivered = fanouts[k].sent)
            => Notifications(T, guilds[i].guildID, Len(fanouts)) >= 1

\* C6: a well-formed demoReady for a share code that has no match record is
\* answered 200 and leaves a match record whose demo name is demo_path,
\* provided the store calls succeed.
C6_ReadyForUnknownCreates ==
    \A k \in DOMAIN hookLog : \A T \in HookCodes :
        (ValidReady(hookLog[k], T) /\ ~hookLog[k].known /\ hookLog[k].storeOK)
            => /\ hookLog[k].status = 200
               /\ \E i \in DOMAIN games :
                     /\ games[i].shareCode = T
                     /\ games[i].demoName = hookLog[k].payload.demo_path

\* C7: a well-formed demoParsed for a share code that has no match record is
\* answered 200 and leaves a match record for that share code, provided the
\* store calls succeed.
C7_ParsedForUnknownSucceeds ==
    \A k \in DOMAIN hookLog : \A T \in HookCodes :
        (ValidParsed(hookLog[k], T) /\ ~hookLog[k].known /\ hookLog[k].storeOK)
            => /\ hookLog[k].status = 200
               /\ HasGame(games, T)

\* C8: however many demoReady deliveries for share code T are accepted, the
\* parseDemo request for T is issued exactly once as long as it succeeds.
C8_ParseRequestedOnce ==
    \A T \in HookCodes :
        (/\ steamPoller = "set"
         /\ parseReq[T].failed = 0
         /\ \E k \in DOMAIN hookLog :
               ValidReady(hookLog[k], T) /\ hookLog[k].status = 200)
            => parseReq[T].issued = 1

\* C9: over all demoParsed deliveries for share code T, every community
\* receives at most one notification for T.
C9_OneNotificationPerToken ==
    \A T \in HookCodes : \A g \in GuildIDs :
        Notifications(T, g, Len(fanouts)) <= 1

\* C10: in one run of sendMatchSummaryToGuilds no community is sent more than
\* one notification, and when the store lookups succeed every community that
\* has a member among the registered participants is sent exactly one.
C10_OnePerCommunityPerFanOut ==
    \A k \in DOMAIN fanouts : \A g \in GuildIDs :
        /\ fanouts[k].sent[g] <= 1
        /\ fanouts[k].delivered[g] <= fanouts[k].sent[g]
        /\ (g \in fanouts[k].eligible /\ fanouts[k].storeOK)
               => fanouts[k].sent[g] = 1

\* a fan-out for a match in which two members of one community took part
C10_Witness ==
    \E k \in DOMAIN fanouts : \E g \in GuildIDs :
        /\ fanouts[k].storeOK
        /\ g \in fanouts[k].eligible
        /\ Len(fanouts[k].players[g]) >= 2
        /\ fanouts[k].delivered[g] = 1

\* the elements of a sequence
Range(seq) == {seq[k] : k \in DOMAIN seq}

\* the participants that have an account which is a member of community g
RegisteredIn(steamIDs, g) ==
    {sid \in Range(steamIDs) :
        \E n \in DOMAIN users :
            /\ users[n].steamID = sid
            /\ users[n].uuid \in Members(GuildRow(g))}

\* C11: the summary sent to a community lists as registered players exactly
\* the participants whose account is a member of that community, each once,
\* when the account lookups succeed.
C11_PlayersOfTheCommunity ==
    \A k \in DOMAIN fanouts : \A g \in GuildIDs :
        (fanouts[k].sent[g] > 0 /\ fanouts[k].storeOK)
            => /\ Range(fanouts[k].players[g])
                      = RegisteredIn(fanouts[k].steamIDs, g)
               /\ Len(fanouts[k].players[g])
                      = Cardinality(RegisteredIn(fanouts[k].steamIDs, g))

\* participants S1, S2, S3 with S1 and S2 in X and S3 in Y only: X is sent
\* the list S1, S2 and Y the list S3
C11_Witness ==
    \E k \in DOMAIN fanouts :
        /\ fanouts[k].storeOK
        /\ fanouts[k].steamIDs = <<"S1", "S2", "S3">>
        /\ fanouts[k].delivered["X"] = 1
        /\ fanouts[k].delivered["Y"] = 1
        /\ fanouts[k].players["X"] = <<"S1", "S2">>
        /\ fanouts[k].players["Y"] = <<"S3">>

\* the steam ids a summary names: the embed has the fields Share Code, Demo
\* File, Players (a count), Registered Players (a list) and Stats
Listed(f, g) == Range(f.players[g])

\* the participants that have no account in the store
Unregistered(steamIDs) ==
    {sid \in Range(steamIDs) : \A n \in DOMAIN users : users[n].steamID # sid}

\* C12: a community with a registered participant is sent one summary that
\* names its registered participants and also names, as unregistered, every
\* participant that has no account; the unknown participant raises no error.
C12_UnregisteredListed ==
    \A k \in DOMAIN fanouts : \A g \in GuildIDs :
        (g \in fanouts[k].eligible /\ fanouts[k].storeOK)
            => /\ fanouts[k].sent[g] = 1
               /\ RegisteredIn(fanouts[k].steamIDs, g) \subseteq Listed(fanouts[k], g)
               /\ Unregistered(fanouts[k].steamIDs) \subseteq Listed(fanouts[k], g)

\* C13: every community in the notify set of a fan-out gets exactly one send
\* attempt and no other community gets any, whichever sends fail.
C13_EveryTargetTried ==
    \A k \in DOMAIN fanouts : \A g \in GuildIDs :
        fanouts[k].sent[g] = IF g \in fanouts[k].targets THEN 1 ELSE 0

\* a fan-out to X and Y in which the send to X fails and Y is still sent to
C13_Witness ==
    \E k \in DOMAIN fanouts :
        /\ fanouts[k].targets = {"X", "Y"}
        /\ fanouts[k].sent["X"] = 1
        /\ fanouts[k].delivered["X"] = 0
        /\ fanouts[k].delivered["Y"] = 1

\* the delivery is a demoReady or demoParsed whose body binds but reports
\* success = false or lacks share_code (for demoReady: or demo_path)
Malformed(e) ==
    /\ e.payload # BadJSON
    /\ \/ ~e.payload.success
       \/ e.payload.share_code = ""
       \/ e.hook = "demoReady" /\ e.payload.demo_path = ""

\* C14: a malformed demoReady or demoParsed is answered 400, and handling it
\* changes no table of the store, issues no provider request and sends no
\* notification.
C14_MalformedRejected ==
    [][(Len(hookLog') = Len(hookLog) + 1 /\ Malformed(hookLog'[Len(hookLog')]))
          => /\ hookLog'[Len(hookLog')].status = 400
             /\ UNCHANGED <<users, guilds, games, parseReq, demoReq, fanouts>>
      ]_vars

\* a demoReady that lacks demo_path has been answered 400 after a delivery
\* that was accepted
C14_Witness ==
    \E i, j \in DOMAIN hookLog :
        /\ i < j
        /\ hookLog[i].status = 200
        /\ hookLog[j].hook = "demoReady"
        /\ Malformed(hookLog[j])
        /\ hookLog[j].payload.success
        /\ hookLog[j].payload.share_code # ""
        /\ hookLog[j].status = 400

\* C15: a step that issues the parseDemo request for T, whether that request
\* succeeds or fails, answers the demoReady with 200 and leaves the match
\* record of T with its demo name set to demo_path; and a well-formed
\* demoReady for a match that has a record is answered 200 when the store
\* calls succeed.
C15_ReadyAcknowledged ==
    [][\A T \in HookCodes :
          /\ parseReq'[T].issued # parseReq[T].issued
                => /\ ValidReady(hookLog'[Len(hookLog')], T)
                   /\ hookLog'[Len(hookLog')].status = 200
                   /\ \E i \in DOMAIN games' :
                         /\ games'[i].shareCode = T
                         /\ games'[i].demoName
                                = hookLog'[Len(hookLog')].payload.demo_path
          /\ (/\ Len(hookLog') = Len(hookLog) + 1
              /\ ValidReady(hookLog'[Len(hookLog')], T)
              /\ hookLog'[Len(hookLog')].known
              /\ hookLog'[Len(hookLog')].storeOK)
                => hookLog'[Len(hookLog')].status = 200
      ]_vars

\* a demoReady was answered 200 although its parseDemo request failed, and
\* the match record holds the demo path
C15_Witness ==
    \E k \in DOMAIN hookLog :
        /\ ValidReady(hookLog[k], "C1")
        /\ hookLog[k].status = 200
        /\ parseReq["C1"].failed >= 1
        /\ parseReq["C1"].ok = 0
        /\ \E i \in DOMAIN games :
              games[i].shareCode = "C1" /\ games[i].demoName = "demo.dem"

\* C16: a well-formed demoParsed for a match that has a record is answered
\* 200 unless the read of the record fails, whichever summaries could not be
\* delivered, and handling it changes no table of the store.
C16_ParsedAcknowledged ==
    [][\A T \in HookCodes :
          (/\ Len(hookLog') = Len(hookLog) + 1
           /\ ValidParsed(hookLog'[Len(hookLog')], T)
           /\ hookLog'[Len(hookLog')].known)
             => /\ \/ hookLog'[Len(hookLog')].status = 200
                   \/ ~hookLog'[Len(hookLog')].storeOK
                /\ UNCHANGED <<users, guilds, games>>
      ]_vars

\* a demoParsed was answered 200 although no summary of its fan-out could be
\* delivered
C16_Witness ==
    /\ \E k \in DOMAIN hookLog :
          /\ ValidParsed(hookLog[k], "C1")
          /\ hookLog[k].status = 200
    /\ \E k \in DOMAIN fanouts :
          /\ fanouts[k].targets = {"X", "Y"}
          /\ \A g \in GuildIDs : fanouts[k].delivered[g] = 0
    /\ Len(fanouts) = 1
    /\ HasGame(games, "C1")

(***************************************************************************)
(* C17: at most one poll cycle of a poller executes at any time, for every *)
(* interleaving of Start calls and ticks: a second Start while the poller  *)
(* is running begins no second loop, and a loop takes its next tick only   *)
(* when its cycle has returned.                                            *)
(***************************************************************************)
InCycle(l) ==
    pc[l] \in {"poll", "range", "mark", "update", "request", "wait", "unmark"}

InLoop(l) == pc[l] = "select" \/ InCycle(l)

C17_SingleFlight ==
    /\ Cardinality({l \in Loops : InCycle(l)}) <= 1
    /\ Cardinality({l \in Loops : InLoop(l)}) <= 1

\* the second Start has returned and the loop is in its second cycle
C17_Witness ==
    /\ InCycle(1)
    /\ pc[2] = "returned"
    /\ cycles[1] = MaxCycles

(***************************************************************************)
(* C18: Stop aborts no cycle in progress.  The loop leaves only from its   *)
(* select, between two cycles, and once it has left every code in          *)
(* processedCodes is one whose download request was issued.                *)
(***************************************************************************)
Stopped(l) == pc[l] = "exited"

C18_StopBetweenCycles ==
    /\ [](\A l \in Loops :
            Stopped(l) => \A T \in processedCodes : demoReq[T].issued >= 1)
    /\ [][\A l \in Loops : Stopped(l)' /\ ~Stopped(l) => ~InCycle(l)]_vars

\* Stop closed stopChan after the code was marked and before its request
\* was issued; the loop has left with the code marked
C18_Witness ==
    /\ Stopped(1)
    /\ stopAt[1] = "update"
    /\ processedCodes # {}

CycleEnded(l) == pc[l] = "select" /\ cycles[l] > 0 /\ snap[l] # <<>>

Polled(l) == cycPolled[l].ok \cup cycPolled[l].failed

C20_FailureDoesNotAbort ==
    \A l \in Loops : CycleEnded(l) =>
        /\ \A i \in 1..Len(snap[l]) :
              snap[l][i].lastShareCode # NoCode =>
                  snap[l][i].steamID \in Polled(l)
        /\ \A T \in Keys(currentCodes[l]) :
              cycReq[l][T] >= 1 \/ T \in cycSkipped[l]

\* the poll of S1 failed, S2 was polled after it and the code S2 reported
\* was requested
C20_Witness ==
    /\ CycleEnded(1)
    /\ "S1" \in cycPolled[1].failed
    /\ "S2" \in cycPolled[1].ok
    /\ \E T \in Keys(currentCodes[1]) : cycReq[1][T] >= 1

(***************************************************************************)
(* C21: adding a reference twice leaves one occurrence.  No member list,   *)
(* match list of a community or match list of an account holds a reference *)
(* twice, and a call of addUserToGuild, addGameToGuild or addGameToUser    *)
(* with a pair that an earlier call was made with leaves the table as it   *)
(* is.                                                                     *)
(***************************************************************************)
NoDuplicates(list) ==
    \A j, k \in DOMAIN list : j # k => list[j] # list[k]

Called(op, key, ref) ==
    \E n \in DOMAIN cmdLog : cmdLog[n] = Call(op, key, ref)

\* a call with a pair that was used before changes nothing
RepeatedAddKeeps ==
    /\ \A g \in GuildIDs, u \in UserUUIDs :
          AddUserToGuild(g, u) /\ Called("addUserToGuild", g, u)
              => guilds' = guilds
    /\ \A g \in GuildIDs, m \in GameUUIDs :
          AddGameToGuild(g, m) /\ Called("addGameToGuild", g, m)
              => guilds' = guilds
    /\ \A st \in SteamIDs, m \in GameUUIDs :
          AddGameToUser(st, m) /\ Called("addGameToUser", st, m)
              => users' = users

NoDuplicateReference ==
    /\ \A i \in DOMAIN guilds : /\ NoDuplicates(guilds[i].userIDs)
                                 /\ NoDuplicates(guilds[i].gameIDs)
    /\ \A i \in DOMAIN users : NoDuplicates(users[i].gameIDs)

C21_AddIsIdempotent == []NoDuplicateReference /\ [][RepeatedAddKeeps]_vars

\* u1 was added to Y twice and is in Y's member list
C21_Witness ==
    /\ Len(cmdLog) >= 2
    /\ cmdLog[1] = Call("addUserToGuild", "Y", "u1")
    /\ cmdLog[2] = cmdLog[1]
    /\ \E i \in DOMAIN guilds :
          guilds[i].guildID = "Y" /\ Contains(guilds[i].userIDs, "u1")

(***************************************************************************)
(* C22: once a removal of an account has completed and no handler is       *)
(* running, the account's reference is in no member list and the account   *)
(* has no row, also when a registration of the account ran concurrently    *)
(* with the removal.  A registration that began after the removal had      *)
(* completed is not part of the statement.                                 *)
(***************************************************************************)
Quiet == \A p \in Procs : cmds[p] = Idle

RegisteredAfter(n, steamID) ==
    \E k \in DOMAIN cmdLog :
        /\ cmdLog[k].op = "register"
        /\ cmdLog[k].cmd.steamID = steamID
        /\ cmdLog[k].cmd.began >= n

Gone(user) ==
    /\ \A i \in DOMAIN guilds : ~Contains(guilds[i].userIDs, user.uuid)
    /\ \A i \in DOMAIN users : users[i].steamID # user.steamID

C22_RemovedIsGone ==
    \A n \in DOMAIN cmdLog :
        /\ cmdLog[n].op = "remove"
        /\ cmdLog[n].ok
        /\ Quiet
        /\ ~RegisteredAfter(n, cmdLog[n].cmd.steamID)
        => Gone(cmdLog[n].cmd.user)

(***************************************************************************)
(* C23: a registration with valid fields, or a set-channel, that names a   *)
(* community without a row creates the row and goes on: when it has        *)
(* responded the community has a row and the response is not the failure   *)
(* of ensureGuildExists.                                                   *)
(***************************************************************************)
ValidRegister(c) ==
    c.steamID # "" /\ c.authCode # "" /\ ValidShareCode(c.lastShareCode)

NamesGuild(e) ==
    \/ e.op = "set_channel"
    \/ e.op = "register" /\ ValidRegister(e.cmd)

C23_UnknownCommunityCreated ==
    \A n \in DOMAIN cmdLog :
        NamesGuild(cmdLog[n]) =>
            /\ HasGuild(guilds, cmdLog[n].cmd.guildID)
            /\ cmdLog[n].msg \notin {"Failed to process guild",
                                     "Failed to update channel"}

(***************************************************************************)
(* C24: /register with valid fields creates the account when its identity  *)
(* is unknown and updates it otherwise: when the handlers have responded   *)
(* the command has succeeded, there is exactly one account row for the     *)
(* identity, with a credential and a last share code that a registration   *)
(* gave, and its uuid is in the member list of the community.              *)
(***************************************************************************)
RowsOf(steamID) == {i \in DOMAIN users : users[i].steamID = steamID}

MemberOf(guildID, uuid) ==
    \E i \in DOMAIN guilds :
        guilds[i].guildID = guildID /\ Contains(guilds[i].userIDs, uuid)

C24_RegisterCreatesOrUpdates ==
    \A n \in DOMAIN cmdLog :
        cmdLog[n].op = "register" /\ ValidRegister(cmdLog[n].cmd) /\ Quiet =>
            /\ cmdLog[n].ok
            /\ Cardinality(RowsOf(cmdLog[n].cmd.steamID)) = 1
            /\ \A i \in RowsOf(cmdLog[n].cmd.steamID) :
                  /\ users[i].authCode = "auth2"
                  /\ users[i].lastShareCode = "C2"
                  /\ MemberOf(cmdLog[n].cmd.guildID, users[i].uuid)

(***************************************************************************)
(* C25: a lookup of an absent entity is told apart from a storage failure. *)
(* A query for a match, an account or a community that has no row is       *)
(* answered 404, and a query is answered 500 only when the lookup failed   *)
(* in the database.                                                        *)
(***************************************************************************)
IsQuery(e) ==
    e.op \in {"HandleMatchQuery", "HandleUserQuery", "HandleGuildQuery"}

C25_AbsentIsNotFound ==
    \A n \in DOMAIN cmdLog :
        IsQuery(cmdLog[n]) /\ cmdLog[n].key # "" =>
            /\ ~cmdLog[n].present /\ ~cmdLog[n].fault
                   => cmdLog[n].status = 404
            /\ cmdLog[n].status = 500 => cmdLog[n].fault

(***************************************************************************)
(* C26: the asset of a match moves from unknown to ready to parsed and     *)
(* never back.  Once a demoParsed delivery for a share code has been       *)
(* accepted, no later demoReady delivery for that code is accepted and     *)
(* written to the record.                                                  *)
(***************************************************************************)
Accepted(k, hook, T) ==
    /\ hookLog[k].hook = hook
    /\ hookLog[k].status = 200
    /\ hookLog[k].payload.share_code = T

C26_NeverBackToReady ==
    \A j, k \in DOMAIN hookLog, T \in HookCodes :
        j < k /\ Accepted(j, "demoParsed", T) => ~Accepted(k, "demoReady", T)

(***************************************************************************)
(* C27: every poll cycle terminates even when the provider never answers:  *)
(* a loop that is inside a cycle is eventually back at its select, where   *)
(* the single-flight guard no longer holds a cycle.                        *)
(***************************************************************************)
C27_CycleTerminates == InCycle(1) ~> ~InCycle(1)

(***************************************************************************)
(* C28: a guildDelete leaves the guilds table as it is, so the record of   *)
(* the community keeps its destination, its members and its matches; a     *)
(* guildCreate for a community that has a record leaves the table as it    *)
(* is.                                                                     *)
(***************************************************************************)
GuildEventKeeps ==
    /\ \A g \in GuildIDs, fault \in BOOLEAN :
          GuildDelete(g, fault) => guilds' = guilds
    /\ \A g \in GuildIDs, fault \in BOOLEAN :
          \A ch \in {"chDef", g} :
              GuildCreate(g, ch, fault) /\ HasGuild(guilds, g)
                  => guilds' = guilds

C28_RecordPreserved == [][GuildEventKeeps]_vars

\* the bot has left X and joined it again, without a database fault, and
\* the record of X is the one it had
C28_Witness ==
    /\ \E j, k \in DOMAIN cmdLog :
          /\ j < k
          /\ cmdLog[j].op = "guildDelete" /\ cmdLog[j].key = "X"
          /\ cmdLog[j].err = Nil
          /\ cmdLog[k].op = "guildCreate" /\ cmdLog[k].key = "X"
          /\ cmdLog[k].existed /\ cmdLog[k].err.wraps = ErrUnique
    /\ \E i \in DOMAIN guilds :
          /\ guilds[i].guildID = "X"
          /\ guilds[i].channelID = "chX"
          /\ guilds[i].userIDs = <<"u1", "u2">>
          /\ guilds[i].gameIDs = <<<<"game", "C1">>>>

(***************************************************************************)
(* C29: after ready, every community the bot is in, whose lookup did not   *)
(* fail in the database, has a record.                                     *)
(***************************************************************************)
C29_ReadyRegistersAll ==
    \A n \in DOMAIN cmdLog :
        cmdLog[n].op = "ready"
            => \A i \in DOMAIN cmdLog[n].joined :
                   cmdLog[n].joined[i] \notin cmdLog[n].faulty
                       => HasGuild(guilds, cmdLog[n].joined[i])

(***************************************************************************)
(* C30: once a change of destination and the additions it ran with have    *)
(* all completed, the member list of a community holds every account that  *)
(* was added to it and its match list every match that was added to it.    *)
(***************************************************************************)
Holds(guildID, list, ref) ==
    \E i \in DOMAIN guilds :
        guilds[i].guildID = guildID /\ Contains(guilds[i][list], ref)

C30_ChannelChangeKeepsAdds ==
    Quiet =>
        \A n \in DOMAIN cmdLog :
            /\ cmdLog[n].op = "addUserToGuild"
                  => Holds(cmdLog[n].key, "userIDs", cmdLog[n].ref)
            /\ cmdLog[n].op = "addGameToGuild"
                  => Holds(cmdLog[n].key, "gameIDs", cmdLog[n].ref)

(***************************************************************************)
(* C31: no two rows of games have the same share code, no two rows of      *)
(* users the same Steam ID and no two rows of guilds the same guild id,    *)
(* also while demoReady requests for one share code run concurrently.      *)
(***************************************************************************)
C31_OneRecordPerKey ==
    /\ \A i, j \in DOMAIN games :
          games[i].shareCode = games[j].shareCode => i = j
    /\ \A i, j \in DOMAIN users :
          users[i].steamID = users[j].steamID => i = j
    /\ \A i, j \in DOMAIN guilds :
          guilds[i].guildID = guilds[j].guildID => i = j

\* the second request for c did its lookup before the first was answered
Overlapped(c) ==
    \E j, k \in DOMAIN cmdLog :
        /\ j < k
        /\ cmdLog[j].op = "demoReady" /\ cmdLog[k].op = "demoReady"
        /\ cmdLog[j].cmd.payload.share_code = c
        /\ cmdLog[k].cmd.payload.share_code = c
        /\ cmdLog[k].cmd.began < j

\* two concurrent requests for C2, which had no row, have been answered
C31_Witness ==
    /\ Quiet
    /\ Overlapped("C2")

(***************************************************************************)
(* C32: the write of a demoReady request for a share code that has a row   *)
(* changes nothing but the demo name of that row: every row keeps its      *)
(* uuid, share code and participants, no row is added, and users and       *)
(* guilds are left as they are.                                            *)
(***************************************************************************)
OnlyDemoName(code) ==
    /\ DOMAIN games' = DOMAIN games
    /\ \A i \in DOMAIN games :
          /\ games'[i].uuid = games[i].uuid
          /\ games'[i].shareCode = games[i].shareCode
          /\ games'[i].steamIDs = games[i].steamIDs
          /\ games[i].shareCode # code => games'[i] = games[i]
    /\ users' = users
    /\ guilds' = guilds

ReadyWriteKeeps ==
    \A p \in Procs :
        DemoReadyWrite(p) /\ HasGame(games, cmds[p].payload.share_code)
            => OnlyDemoName(cmds[p].payload.share_code)

C32_ReadyChangesAssetOnly == [][ReadyWriteKeeps]_vars

\* a demoReady for C1, which has a row with two participants, was answered
\* 200 and the row holds the new demo name and the same participants
C32_Witness ==
    /\ \E n \in DOMAIN cmdLog :
          /\ cmdLog[n].op = "demoReady"
          /\ cmdLog[n].status = 200
          /\ cmdLog[n].cmd.known
          /\ cmdLog[n].cmd.payload.share_code = "C1"
    /\ games = <<Game("C1", "demo.dem", <<"S1", "S2">>)>>

(***************************************************************************)
(* C33: a summary is sent to a community only if a participant of the      *)
(* match has an account whose uuid is in the member list of the community; *)
(* a participant without account, or a member reference without account,   *)
(* makes no community a target, and the delivery for a match that has a    *)
(* row is answered 200 when no store call fails.                           *)
(***************************************************************************)
C33_OnlyMembersTrigger ==
    /\ \A k \in DOMAIN fanouts : \A g \in GuildIDs :
          fanouts[k].sent[g] > 0
              => RegisteredIn(fanouts[k].steamIDs, g) # {}
    /\ \A n \in DOMAIN hookLog :
          (hookLog[n].hook = "demoParsed" /\ hookLog[n].known
              /\ hookLog[n].storeOK) => hookLog[n].status = 200

\* the match of S1 and the unknown S9 went to X only, although Y has the
\* dangling member u9; the match of S9 alone went to no community
C33_Witness ==
    /\ Members(GuildRow("Y")) = {"u9"}
    /\ \E j, k \in DOMAIN fanouts :
          /\ fanouts[j].steamIDs = <<"S1", "S9">>
          /\ fanouts[j].sent["X"] = 1
          /\ fanouts[j].sent["Y"] = 0
          /\ fanouts[k].steamIDs = <<"S9">>
          /\ fanouts[k].targets = {}
    /\ \A n \in DOMAIN hookLog : hookLog[n].status = 200

(***************************************************************************)
(* C34: in a poll cycle an account is entered under a code only if it has  *)
(* a last share code, was polled without error and the code differs from   *)
(* its last share code; an account without last share code is not polled;  *)
(* the row of an account that is entered under no code is the row the      *)
(* cycle read; a code is marked, and a download requested, only for a code *)
(* that some account is entered under.                                     *)
(***************************************************************************)
Entered(l, steamID) ==
    \E c \in ShareCodes : \E k \in DOMAIN currentCodes[l][c] :
        currentCodes[l][c][k].steamID = steamID

CandidatesOnly ==
    InCycle(1) =>
        /\ \A c \in ShareCodes : \A k \in DOMAIN currentCodes[1][c] :
              LET m == currentCodes[1][c][k]
              IN  /\ m.lastShareCode # NoCode
                  /\ m.lastShareCode # c
                  /\ m.steamID \in cycPolled[1].ok
        /\ \A i \in DOMAIN snap[1] :
              /\ snap[1][i].lastShareCode = NoCode
                    => snap[1][i].steamID
                           \notin cycPolled[1].ok \cup cycPolled[1].failed
              /\ ~Entered(1, snap[1][i].steamID)
                    => \E n \in DOMAIN users : users[n] = snap[1][i]
        /\ \A c \in ShareCodes :
              cycReq[1][c] > 0 => currentCodes[1][c] # <<>>

MarkedForCandidate ==
    MarkProcessed(1) =>
        \A c \in processedCodes' \ processedCodes : currentCodes[1][c] # <<>>

C34_CandidateOnlyIfNew == []CandidatesOnly /\ [][MarkedForCandidate]_vars

\* S2 has no last share code and S1 was answered C2: the download of C2 has
\* been requested for S1 alone, S2 was not polled and its row is untouched
C34_Witness ==
    /\ pc[1] = "wait"
    /\ cur[1] = "C2"
    /\ Len(currentCodes[1]["C2"]) = 1
    /\ currentCodes[1]["C2"][1].steamID = "S1"
    /\ cycPolled[1] = [ok |-> {"S1"}, failed |-> {}]
    /\ users[2] = User("S2", "u2", NoCode)
    /\ processedCodes = {"C2"}

(***************************************************************************)
(* C35: while the loop is in a provider call (the poll of an account, or   *)
(* the download request and the wait for its answer) it holds sp.mutex     *)
(* neither for reading nor for writing, so that a call of IsRunning, Stop  *)
(* or CleanupProcessedCodes gets the mutex unless one of those calls holds *)
(* it.                                                                     *)
(***************************************************************************)
InProviderCall(l) == pc[l] \in {"poll", "request", "wait"}

C35_NoLockAcrossCalls ==
    InProviderCall(1) =>
        /\ 1 \notin LoopWriters \cup LoopReaders
        /\ (\A p \in Procs : cmds[p] = Idle) => CanLock /\ CanRLock

\* IsRunning, Stop and CleanupProcessedCodes have each got the mutex and
\* returned while the download request of the loop was unanswered
C35_Witness ==
    /\ pc[1] = "wait"
    /\ \A op \in {"IsRunning", "Stop", "CleanupProcessedCodes"} :
          \E n \in DOMAIN cmdLog : cmdLog[n].op = op /\ cmdLog[n].waiting

(***************************************************************************)
(* C36: whatever the order of the Start and Stop calls, the stop channel   *)
(* is closed at most once: no call of Stop closes a channel that is        *)
(* closed.                                                                 *)
(***************************************************************************)
C36_ClosedAtMostOnce == ~panicked

(***************************************************************************)
(* C37: isRunning is true only while a polling loop of the poller is       *)
(* executing.                                                              *)
(***************************************************************************)
C37_RunningMeansLoop == isRunning => \E l \in Loops : InLoop(l)

(***************************************************************************)
(* C38: when the download request of a code is issued the code is marked,  *)
(* and the last share code of every account of its group has been         *)
(* updated, but for the accounts whose update failed in the database; the  *)
(* code is marked before the updates and the request comes after them.     *)
(***************************************************************************)
NotUpdated(l) ==
    {k \in DOMAIN currentCodes[l][cur[l]] :
        LastShareCodeOf(currentCodes[l][cur[l]][k].steamID) # cur[l]}

C38_MarkedAndUpdatedFirst ==
    /\ pc[1] \in {"update", "request", "wait"} => cur[1] \in processedCodes
    /\ pc[1] \in {"update", "request"} => cycReq[1][cur[1]] = 0
    /\ pc[1] \in {"request", "wait"}
          => Cardinality(NotUpdated(1)) <= storeFaults

\* the update of S1 failed in the database, S2 was updated all the same and
\* the download of C2 has been requested
C38_Witness ==
    /\ pc[1] = "wait"
    /\ cur[1] = "C2"
    /\ Len(currentCodes[1]["C2"]) = 2
    /\ LastShareCodeOf("S1") = "C1"
    /\ LastShareCodeOf("S2") = "C2"
    /\ demoReq["C2"].issued = 1

(***************************************************************************)
(* C39: the poller adds no row to users and no reference to a community:   *)
(* every row of users is one of the accounts the database started with,    *)
(* and an account that /remove has removed has no row and no reference,    *)
(* also when a poll cycle that read the account updates it afterwards.     *)
(***************************************************************************)
C39_PollerNeverCreates ==
    /\ \A i \in DOMAIN users : users[i].uuid \in {"u1", "u2"}
    /\ \A n \in DOMAIN cmdLog :
          (cmdLog[n].op = "remove" /\ cmdLog[n].ok)
              => Gone(cmdLog[n].cmd.user)

\* the first cycle read S1 and entered it under C2, S1 has been removed, and
\* the updates of the group of C2 are done: S2 has the new code, S1 no row
C39_Witness ==
    /\ cycles[1] = 1
    /\ pc[1] \in {"request", "wait"}
    /\ cur[1] = "C2"
    /\ Entered(1, "S1") /\ Entered(1, "S2")
    /\ \E n \in DOMAIN cmdLog :
          cmdLog[n].op = "remove" /\ cmdLog[n].ok
              /\ cmdLog[n].cmd.steamID = "S1"
    /\ LastShareCodeOf("S2") = "C2"
    /\ Len(users) = 1

====
